---- MODULE Spec2Model ----
(***************************************************************************)
(* A model of the location board application:                              *)
(*   - the geocoding gateway, GET /api/geocode (src/app/api/geocode);      *)
(*   - the data-access layer over messages and profiles (lib/supabase);    *)
(*   - the ConnectionMap component: its realtime channels, the unread      *)
(*     counter, the directory and the profile card;                        *)
(*   - the city search of the AddProfileModal.                             *)
(* Coordinates are integers in hundredths of a degree (1879 is 18.79).     *)
(***************************************************************************)
EXTENDS Integers, Sequences, FiniteSets, Bags, TLC

VARIABLES
    \* ---- geocoding gateway: one request to GET /api/geocode
    gPc,          \* "idle" | "awaitPrimary" | "awaitSecondary" | "done"
    gQuery,       \* searchParams.get('q'): Null or a string
    gRequests,    \* the providers fetched so far, in order
    gPrimary,     \* what the fetch of the primary provider settled with
    gSecondary,   \* what the fetch of the secondary provider settled with
    gResponse,    \* the NextResponse the handler returned
    gEscaped,     \* TRUE when an exception left the handler
    \* ---- the backend: authentication and the messages collection
    session,      \* the user supabase.auth.getUser() yields, or NoUser
    messages,     \* the rows of the messages collection, in creation order
    \* ---- the data-access layer, called directly
    sendCall,     \* the sendMessage call in progress, or its result
    lastMark,     \* the markMessagesAsRead call that has just returned
    \* ---- the ConnectionMap component
    unreadCount,  \* useState(0)
    loadCalls,    \* the loadMyProfile calls in progress, a bag
    mounted,      \* TRUE while the component is mounted
    channels,     \* the realtime channels the client is subscribed to, a bag
    msgEvents,    \* INSERT events the backend emitted on the message channel, not yet delivered
    profEvents,   \* change events emitted on the profile channel, not yet delivered
    showInboxModal,
    inboxLoad,    \* the InboxModal's loadMessages call in progress
    sinceReset,   \* events delivered since the inbox was last opened (-1: never opened)
    \* ---- the backend: the profiles collection
    profiles,     \* the rows of the profiles collection, in creation order
    profileSeq,   \* the number of rows ever inserted (the next id is profileSeq + 1)
    \* ---- the data-access layer over profiles, called directly
    profCall,     \* the call in progress, or its result
    \* ---- the ConnectionMap component: the directory and the profile card
    members,      \* useState<MapMember[]>([])
    dirLoads,     \* the loadProfiles calls in progress, a bag
    myProfile,    \* useState<Profile | null>(null)
    selectedMember,
    isEditing,
    editStatus,
    editCountdown,
    saving,
    saveCall,     \* the handleSaveProfile call in progress
    avatarCall,   \* the avatar upload and the handleAvatarUpdate call it ends with
    deleteCall,   \* the handleDeleteProfile call in progress
    createCall,   \* the AddProfileModal's handleSubmit call in progress
    uiError,      \* the error the last operation started from the UI showed, or NoError
    \* ---- the AddProfileModal's city search
    cityQuery,    \* useState('')
    selectedCity, \* useState<CityResult | null>(null)
    cityResults,  \* useState<CityResult[]>([])
    searching,    \* useState(false)
    debounceTimerRef, \* useRef(null): the id of a timer, or Null
    timers,       \* the timeouts the runtime holds, not yet expired or cleared
    searches,     \* the searchCity calls that await their fetch
    \* ---- history
    typed,        \* the values of the keystrokes in the city input, in order
    searchSeq,    \* the number of geocode searches started
    listSeq,      \* the last search cityResults reflects: the one whose answer
                  \* was stored last, or the last one started before the list was cleared
    atEvent       \* unread messages of the user when the message channel's
                  \* callback last ran in this session (-1: it has not)

gvars == <<gPc, gQuery, gRequests, gPrimary, gSecondary, gResponse, gEscaped>>
bvars == <<session, messages>>
dvars == <<sendCall, lastMark>>
svars == <<mounted, channels, profEvents>>
cvars == <<unreadCount, loadCalls, svars, msgEvents, showInboxModal, inboxLoad,
           sinceReset>>
pvars == <<profiles, profileSeq>>
qvars == <<profCall>>

lvars == <<members, dirLoads>>
evars == <<selectedMember, isEditing, editStatus, editCountdown, saving, saveCall,
           avatarCall, deleteCall, createCall, uiError>>
mvars == <<lvars, evars, myProfile>>
\* what the directory and the profile card leave alone
DirRest == <<unreadCount, loadCalls, msgEvents, showInboxModal, inboxLoad, sinceReset>>

tvars == <<cityQuery, selectedCity, cityResults, searching, debounceTimerRef, timers,
           searches, typed, searchSeq, listSeq>>
wvars == <<atEvent>>

vars == <<gvars, bvars, dvars, cvars, pvars, qvars, mvars, tvars, wvars>>

-----------------------------------------------------------------------------
(* Bounds of the model. *)
MaxCandidates == 2
MaxFeatures == 2
\* rows the messages collection may hold
MaxMessages == 2
\* loadMyProfile calls in progress at once
MaxLoads == 1
\* rows ever inserted into the profiles collection
MaxProfiles == 2
\* change events of profiles emitted and not yet delivered
MaxEvents == 1
\* loadProfiles calls in progress at once
MaxDirLoads == 1
\* keystrokes in the city input
MaxKeystrokes == 3
\* geocode searches the city input starts
MaxSearches == 2

-----------------------------------------------------------------------------
(* JavaScript / JSON values. *)
Null == [t |-> "null"]
Undefined == [t |-> "undefined"]
Str(s) == [t |-> "string", s |-> s]
\* the number n / 100
Num(n) == [t |-> "number", n |-> n]
\* the string holding the decimal text of n / 100, as Nominatim sends lat and lon
NumStr(n) == [t |-> "string", n |-> n]
Arr(items) == [t |-> "array", items |-> items]
\* a JSON object that has no length and no features (an error object)
PlainObject == [t |-> "object", features |-> Undefined]
FeatureCollection(fs) == [t |-> "object", features |-> Arr(fs)]

None == [t |-> "none"]

\* JavaScript truthiness of the values the handler tests
Truthy(v) == /\ v # Null
             /\ v # Undefined
             /\ v # Str("")

\* String(v) as the + operator applies it to an operand
JsString(v) == IF v = Undefined THEN "undefined"
               ELSE IF v = Null THEN "null"
               ELSE v.s

\* a || b
Or(a, b) == IF Truthy(a) THEN a ELSE b

SeqsUpTo(S, n) == UNION {[1..k -> S] : k \in 0..n}

-----------------------------------------------------------------------------
(* The two providers' answers. *)
Coords == {<<Num(9898), Num(1879)>>, <<Num(-7400), Num(4071)>>}

Candidates ==
    {[display_name |-> "Chiang Mai, Thailand", lat |-> NumStr(1879), lon |-> NumStr(9898)],
     [display_name |-> "New York, USA", lat |-> NumStr(4071), lon |-> NumStr(-7400)]}

Features ==
    {[properties |-> [name |-> n, city |-> c, country |-> k],
      geometry |-> [coordinates |-> xy]] :
        n \in {Undefined, Str("Chiang Mai")},
        c \in {Undefined, Str(""), Str("Mueang")},
        k \in {Undefined, Str("Thailand")},
        xy \in Coords}

Throws == [kind |-> "throw"]
Response(ok, body) == [kind |-> "response", ok |-> ok, body |-> body]
Unreadable == [kind |-> "unreadable"]
Json(v) == [kind |-> "json", value |-> v]

PrimaryBodies ==
    {Unreadable, Json(Null), Json(PlainObject)}
        \cup {Json(Arr(cs)) : cs \in SeqsUpTo(Candidates, MaxCandidates)}

SecondaryBodies ==
    {Unreadable, Json(Null), Json(PlainObject)}
        \cup {Json(FeatureCollection(fs)) : fs \in SeqsUpTo(Features, MaxFeatures)}

\* the body of an answer with a non-success status, which the handler never reads
RefusalBodies == {Unreadable, Json(PlainObject)}

PrimaryReplies ==
    {Throws} \cup {Response(TRUE, b) : b \in PrimaryBodies}
             \cup {Response(FALSE, b) : b \in RefusalBodies}

SecondaryReplies ==
    {Throws} \cup {Response(TRUE, b) : b \in SecondaryBodies}
             \cup {Response(FALSE, b) : b \in RefusalBodies}

Queries == {Null, Str(""), Str("Chiangmai")}

-----------------------------------------------------------------------------
(* GET /api/geocode *)
Return(status, body) == [kind |-> "return", response |-> [status |-> status, body |-> body]]
Throw == [kind |-> "throw"]
FetchSecondary == [kind |-> "fetchSecondary"]

ErrorBody(msg) == [t |-> "object", error |-> msg]

\* !query
QueryMissingOnlyNull(query) == query = Null
QueryMissing(query) == ~Truthy(query)

\* data && data.length > 0 (length is undefined for what is no array)
HasCandidatesMoreThanOne(data) == /\ Truthy(data)
                                  /\ data.t = "array"
                                  /\ Len(data.items) > 1
HasCandidates(data) == /\ Truthy(data)
                       /\ data.t = "array"
                       /\ Len(data.items) > 0

\* route.ts 15-32: from the primary's settled fetch to the return, the throw or
\* the next fetch
AfterPrimary(reply) ==
    IF reply.kind = "throw" THEN Throw
    ELSE IF reply.ok
         THEN IF reply.body.kind = "unreadable" THEN Throw
              ELSE IF HasCandidates(reply.body.value)
                   THEN Return(200, reply.body.value)
                   ELSE FetchSecondary
         ELSE FetchSecondary

\* route.ts 37-41: one Photon feature in Nominatim's format
FormatFeatureUnswapped(f) ==
    [display_name |-> JsString(f.properties.name) \o ", "
                        \o JsString(Or(Or(f.properties.city, f.properties.country), Str(""))),
     lat |-> f.geometry.coordinates[1],
     lon |-> f.geometry.coordinates[2]]
FormatFeature(f) ==
    [display_name |-> JsString(f.properties.name) \o ", "
                        \o JsString(Or(Or(f.properties.city, f.properties.country), Str(""))),
     lat |-> f.geometry.coordinates[2],
     lon |-> f.geometry.coordinates[1]]

\* data.features.map(...)
MapFeatures(fs) == [i \in 1..Len(fs) |-> FormatFeature(fs[i])]

\* route.ts 32-45: from the secondary's settled fetch to the return or the throw
AfterSecondaryThrowsOnNone(reply) ==
    IF reply.kind = "throw" THEN Throw
    ELSE IF reply.ok
         THEN IF reply.body.kind = "unreadable" THEN Throw
              ELSE IF reply.body.value = Null THEN Throw
              ELSE IF reply.body.value.features = Undefined THEN Throw
              ELSE IF reply.body.value.features.items = <<>> THEN Throw
              ELSE Return(200, Arr(MapFeatures(reply.body.value.features.items)))
         ELSE Throw
AfterSecondary(reply) ==
    IF reply.kind = "throw" THEN Throw
    ELSE IF reply.ok
         THEN IF reply.body.kind = "unreadable" THEN Throw
              ELSE IF reply.body.value = Null THEN Throw
              ELSE IF reply.body.value.features = Undefined THEN Throw
              ELSE Return(200, Arr(MapFeatures(reply.body.value.features.items)))
         ELSE Throw

\* route.ts 47-50: the catch block
CatchRethrows(outcome) == outcome
Catch(outcome) ==
    IF outcome.kind = "throw"
    THEN Return(500, ErrorBody("Failed to fetch location data"))
    ELSE outcome

\* the handler ends with `outcome`
Finish(outcome) ==
    /\ gPc' = "done"
    /\ gResponse' = IF outcome.kind = "return" THEN outcome.response ELSE None
    /\ gEscaped' = (outcome.kind = "throw")

\* route.ts 3-20
GET_Begin ==
    /\ gPc = "idle"
    /\ \E query \in Queries :
          /\ gQuery' = query
          /\ IF QueryMissing(query)
             THEN /\ Finish(Return(400, ErrorBody("Query parameter is required")))
                  /\ UNCHANGED gRequests
             ELSE /\ gPc' = "awaitPrimary"
                  /\ gRequests' = Append(gRequests, "primary")
                  /\ UNCHANGED <<gResponse, gEscaped>>
    /\ UNCHANGED <<gPrimary, gSecondary>>

\* route.ts 15-32
GET_PrimarySettled ==
    /\ gPc = "awaitPrimary"
    /\ \E reply \in PrimaryReplies :
          /\ gPrimary' = reply
          /\ LET outcome == Catch(AfterPrimary(reply))
             IN  IF outcome.kind = "fetchSecondary"
                 THEN /\ gPc' = "awaitSecondary"
                      /\ gRequests' = Append(gRequests, "secondary")
                      /\ UNCHANGED <<gResponse, gEscaped>>
                 ELSE /\ Finish(outcome)
                      /\ UNCHANGED gRequests
    /\ UNCHANGED <<gQuery, gSecondary>>

\* route.ts 32-50
GET_SecondarySettled ==
    /\ gPc = "awaitSecondary"
    /\ \E reply \in SecondaryReplies :
          /\ gSecondary' = reply
          /\ Finish(Catch(AfterSecondary(reply)))
    /\ UNCHANGED <<gQuery, gRequests, gPrimary>>

\* the next request: every call of the handler starts afresh
GET_Next ==
    /\ gPc = "done"
    /\ gPc' = "idle"
    /\ gQuery' = None
    /\ gRequests' = <<>>
    /\ gPrimary' = None
    /\ gSecondary' = None
    /\ gResponse' = None
    /\ gEscaped' = FALSE

-----------------------------------------------------------------------------
(* The backend: users, the session, the messages collection. *)
Users == {"u1", "u2"}
NoUser == "none"
Contents == {"hi"}

MessageIds == 1..MaxMessages

\* the error sendMessage makes up when there is no session
NotLoggedIn == "not logged in"
\* an error the backend answers with
StoreError == "store error"
NoError == "null"

\* the messages collection after the insert of `row` (is_read is not among the
\* columns the client sends: the column's default, false, applies)
StoreInsertMessage(rows, row) ==
    Append(rows, [id |-> Len(rows) + 1,
                  sender_id |-> row.sender_id,
                  receiver_id |-> row.receiver_id,
                  content |-> row.content,
                  is_read |-> FALSE])

\* the channels of the realtime effect: one on every change of profiles and,
\* for a logged-in user, one on the INSERTs of messages addressed to that user.
\* key is the user the run of the effect that subscribed was made for
ProfileChannel(key) == [table |-> "profiles", filter |-> NoUser, key |-> key]
MessageChannel(u) == [table |-> "messages", filter |-> u, key |-> u]

\* the number of subscribed channels a predicate selects
Listening(subscribed, Selects(_)) ==
    BagCardinality([c \in {d \in BagToSet(subscribed) : Selects(d)} |-> subscribed[c]])

\* the backend emits one event for an inserted message on every subscribed
\* channel whose filter receiver_id=eq.<user> matches the row
EmitInsert(row) ==
    LET Receives(c) == c.table = "messages" /\ c.filter = row.receiver_id
    IN  msgEvents' = msgEvents + Listening(channels, Receives)

\* the backend emits one event per changed row of profiles on every subscribed
\* profile channel
EmitProfileChange(n) ==
    LET OnProfiles(c) == c.table = "profiles"
    IN  /\ profEvents + n * Listening(channels, OnProfiles) <= MaxEvents
        /\ profEvents' = profEvents + n * Listening(channels, OnProfiles)

\* .update({ is_read: true }).in('id', messageIds)
UpdateIsReadToggles(rows, messageIds) ==
    [i \in 1..Len(rows) |->
        IF rows[i].id \in messageIds
        THEN [rows[i] EXCEPT !.is_read = ~rows[i].is_read]
        ELSE rows[i]]
UpdateIsRead(rows, messageIds) ==
    [i \in 1..Len(rows) |->
        IF rows[i].id \in messageIds
        THEN [rows[i] EXCEPT !.is_read = TRUE]
        ELSE rows[i]]

\* .select('*', { count: 'exact', head: true }).eq('receiver_id', u).eq('is_read', false)
CountUnread(rows, u) ==
    Cardinality({i \in 1..Len(rows) : rows[i].receiver_id = u /\ ~rows[i].is_read})

\* .select('*').eq('receiver_id', u), the ids of the rows not read
UnreadIds(rows, u) ==
    {rows[i].id : i \in {j \in 1..Len(rows) : rows[j].receiver_id = u /\ ~rows[j].is_read}}

\* ---- the profiles collection
\* the values of a profile's text columns
StatusTexts == {"", "busy"}
ReturnDates == {"", "soon"}
AvatarUrls == {"seed.svg", "up.png"}
ProfileIds == 1..MaxProfiles

\* .insert([row]).select().single(): the backend assigns the id
StoreInsertProfile(rows, seq, row) ==
    Append(rows, [id |-> seq + 1, user_id |-> row.user_id,
                  status_text |-> row.status_text, return_date |-> row.return_date,
                  avatar_url |-> row.avatar_url])

\* .update(updates): the columns named by updates take their values
Patch(row, updates) ==
    [f \in DOMAIN row |-> IF f \in DOMAIN updates THEN updates[f] ELSE row[f]]

\* the rows a filter selects, as indexes
Matching(rows, Filter(_)) == {i \in 1..Len(rows) : Filter(rows[i])}

\* .update(updates) and .delete() on the rows a filter selects
StoreUpdate(rows, Filter(_), updates) ==
    [i \in 1..Len(rows) |-> IF Filter(rows[i]) THEN Patch(rows[i], updates) ELSE rows[i]]
StoreDelete(rows, Filter(_)) ==
    LET Keep(row) == ~Filter(row) IN SelectSeq(rows, Keep)

\* sign-in and sign-out as the backend sees them
AuthSignIn(u) ==
    /\ session = NoUser
    /\ session' = u

AuthSignOut ==
    /\ session # NoUser
    /\ session' = NoUser

-----------------------------------------------------------------------------
(* The data-access layer. *)
Idle == [pc |-> "idle"]

\* the row sendMessage hands to insert
SendRowSwapped(userId, receiverId, content) ==
    [sender_id |-> receiverId, receiver_id |-> userId, content |-> content]
SendRow(userId, receiverId, content) ==
    [sender_id |-> userId, receiver_id |-> receiverId, content |-> content]

\* if (!user) return { error }
SendRefusedNever(user) == FALSE
SendRefused(user) == user = NoUser

\* sendMessage, up to the insert: getUser has answered
sendMessage_Begin(receiverId, content) ==
    /\ sendCall = Idle
    /\ sendCall' = IF SendRefused(session)
                   THEN [pc |-> "returned", user |-> session, receiverId |-> receiverId,
                         error |-> NotLoggedIn, before |-> messages, after |-> messages]
                   ELSE [pc |-> "insert", user |-> session, receiverId |-> receiverId,
                         content |-> content]
    /\ UNCHANGED <<session, messages, msgEvents>>

\* sendMessage: the insert reaches the backend, which performs it or fails
sendMessage_Insert(fails) ==
    /\ sendCall.pc = "insert"
    /\ LET row == SendRow(sendCall.user, sendCall.receiverId, sendCall.content)
       IN  IF fails
           THEN UNCHANGED <<messages, msgEvents>>
           ELSE /\ Len(messages) < MaxMessages
                /\ messages' = StoreInsertMessage(messages, row)
                /\ EmitInsert(row)
    /\ sendCall' = [pc |-> "returned", user |-> sendCall.user,
                    receiverId |-> sendCall.receiverId,
                    error |-> IF fails THEN StoreError ELSE NoError,
                    before |-> messages, after |-> messages']
    /\ UNCHANGED session

\* the caller has the result
sendMessage_Return ==
    /\ sendCall.pc = "returned"
    /\ sendCall' = Idle
    /\ UNCHANGED <<session, messages, msgEvents>>

\* return { error }: the error of the backend's answer
AnswerErrorWhenNothingChanged(fails, before, after) ==
    IF fails \/ before = after THEN StoreError ELSE NoError
AnswerError(fails, before, after) ==
    IF fails THEN StoreError ELSE NoError

\* markMessagesAsRead: one update, which the backend performs or fails.
\* lastMark.repeat: the step before was the same call, performed
markMessagesAsRead(messageIds, fails) ==
    /\ messages' = IF fails THEN messages ELSE UpdateIsRead(messages, messageIds)
    /\ lastMark' = [messageIds |-> messageIds,
                    failed |-> fails,
                    error |-> AnswerError(fails, messages, messages'),
                    before |-> messages,
                    repeat |-> /\ lastMark # None
                               /\ lastMark.messageIds = messageIds
                               /\ lastMark.error = NoError]
    /\ UNCHANGED <<session, msgEvents>>

\* ---- the data-access layer over profiles
\* .eq('id', id).eq('user_id', user.id)
OwnRowAnyOwner(row, id, user) == row.id = id
OwnRow(row, id, user) == row.id = id /\ row.user_id = user

\* if (!user) return { error: new Error('未登录') }
ProfileRefusedNever(user) == FALSE
ProfileRefused(user) == user = NoUser

\* what a call of the layer has returned
Returned(op, user, id, error, before, after) ==
    [pc |-> "returned", op |-> op, user |-> user, id |-> id, error |-> error,
     before |-> before, after |-> after]

\* createProfile, up to the insert: getUser has answered
createProfile_Begin(profile) ==
    /\ profCall = Idle
    /\ profCall' = IF ProfileRefused(session)
                   THEN Returned("createProfile", session, 0, NotLoggedIn, profiles, profiles)
                   ELSE [pc |-> "insert", user |-> session, profile |-> profile]
    /\ UNCHANGED <<session, pvars, profEvents>>

\* createProfile: the insert reaches the backend, which performs it or fails
createProfile_Insert(fails) ==
    /\ profCall.pc = "insert"
    /\ IF fails
       THEN UNCHANGED <<pvars, profEvents>>
       ELSE /\ profileSeq < MaxProfiles
            /\ profiles' = StoreInsertProfile(profiles, profileSeq,
                               [user_id |-> profCall.user,
                                status_text |-> profCall.profile.status_text,
                                return_date |-> profCall.profile.return_date,
                                avatar_url |-> profCall.profile.avatar_url])
            /\ profileSeq' = profileSeq + 1
            /\ EmitProfileChange(1)
    /\ profCall' = Returned("createProfile", profCall.user, 0,
                            IF fails THEN StoreError ELSE NoError, profiles, profiles')
    /\ UNCHANGED session

\* updateProfile, up to the update: getUser has answered
updateProfile_Begin(id, updates) ==
    /\ profCall = Idle
    /\ profCall' = IF ProfileRefused(session)
                   THEN Returned("updateProfile", session, id, NotLoggedIn, profiles, profiles)
                   ELSE [pc |-> "update", user |-> session, id |-> id, updates |-> updates]
    /\ UNCHANGED <<session, pvars, profEvents>>

\* updateProfile: the update reaches the backend, which performs it or fails
updateProfile_Update(fails) ==
    /\ profCall.pc = "update"
    /\ LET Mine(row) == OwnRow(row, profCall.id, profCall.user)
       IN  IF fails
           THEN UNCHANGED <<profiles, profEvents>>
           ELSE /\ profiles' = StoreUpdate(profiles, Mine, profCall.updates)
                /\ EmitProfileChange(Cardinality(Matching(profiles, Mine)))
    /\ profCall' = Returned("updateProfile", profCall.user, profCall.id,
                            IF fails THEN StoreError ELSE NoError, profiles, profiles')
    /\ UNCHANGED <<session, profileSeq>>

\* deleteProfile, up to the delete: getUser has answered
deleteProfile_Begin(id) ==
    /\ profCall = Idle
    /\ profCall' = IF ProfileRefused(session)
                   THEN Returned("deleteProfile", session, id, NotLoggedIn, profiles, profiles)
                   ELSE [pc |-> "delete", user |-> session, id |-> id]
    /\ UNCHANGED <<session, pvars, profEvents>>

\* deleteProfile: the delete reaches the backend, which performs it or fails
deleteProfile_Delete(fails) ==
    /\ profCall.pc = "delete"
    /\ LET Mine(row) == OwnRow(row, profCall.id, profCall.user)
       IN  IF fails
           THEN UNCHANGED <<profiles, profEvents>>
           ELSE /\ profiles' = StoreDelete(profiles, Mine)
                /\ EmitProfileChange(Cardinality(Matching(profiles, Mine)))
    /\ profCall' = Returned("deleteProfile", profCall.user, profCall.id,
                            IF fails THEN StoreError ELSE NoError, profiles, profiles')
    /\ UNCHANGED <<session, profileSeq>>

\* the caller has the result
profCall_Return ==
    /\ profCall.pc = "returned"
    /\ profCall' = Idle
    /\ UNCHANGED <<session, pvars, profEvents>>

\* what an async function settles with
Resolved(v) == [kind |-> "resolved", value |-> v]
Rejected(e) == [kind |-> "rejected", error |-> e]

\* getProfiles: [] on an error, the rows in creation order otherwise
getProfilesThrows(rows, fails) ==
    IF fails THEN Rejected(StoreError) ELSE Resolved(rows)
getProfiles(rows, fails) ==
    IF fails THEN Resolved(<<>>) ELSE Resolved(rows)

\* .single(): the row selected, or the error PGRST116 unless exactly one is
Single(rows, Filter(_)) ==
    LET m == Matching(rows, Filter)
    IN  IF Cardinality(m) = 1
        THEN [data |-> rows[CHOOSE i \in m : TRUE], error |-> NoError]
        ELSE [data |-> Null, error |-> "PGRST116"]

\* getMyProfile: null without a session and on any error, the user's row otherwise
getMyProfile(user, rows, fails) ==
    IF user = NoUser THEN Resolved(Null)
    ELSE LET Mine(row) == row.user_id = user
             answer == IF fails THEN [data |-> Null, error |-> StoreError]
                       ELSE Single(rows, Mine)
         IN  IF answer.error # NoError THEN Resolved(Null) ELSE Resolved(answer.data)

\* what a read of the layer has returned
Read(op, user, fails, result) ==
    [pc |-> "returned", op |-> op, user |-> user, failed |-> fails, result |-> result]

\* the three reads, called directly
getProfiles_Call(fails) ==
    /\ profCall = Idle
    /\ profCall' = Read("getProfiles", session, fails, getProfiles(profiles, fails))
    /\ UNCHANGED <<bvars, pvars>>

getMyProfile_Call(fails) ==
    /\ profCall = Idle
    /\ profCall' = Read("getMyProfile", session, fails,
                        getMyProfile(session, profiles, fails))
    /\ UNCHANGED <<bvars, pvars>>

StoreInit ==
    /\ session = NoUser
    /\ messages = <<>>
    /\ sendCall = Idle
    /\ lastMark = None
    /\ profiles = <<>>
    /\ profileSeq = 0
    /\ profCall = Idle

-----------------------------------------------------------------------------
(* The ConnectionMap component and the InboxModal it opens. *)
\* the calls in progress with one more, one less, one moved on
Started(calls, c) == calls (+) SetToBag({c})
Ended(calls, c) == calls (-) SetToBag({c})
Moved(calls, c, d) == Started(Ended(calls, c), d)

\* getUnreadCount: 0 without a session or on an error, the count otherwise
getUnreadCountIgnoresError(user, rows, fails) ==
    IF user = NoUser THEN 0 ELSE CountUnread(rows, user)
getUnreadCount(user, rows, fails) ==
    IF user = NoUser THEN 0
    ELSE IF fails THEN 0
    ELSE CountUnread(rows, user)

\* setUnreadCount(prev => prev + 1)
Increment(prev) == prev + 1

\* the channels one run of the realtime effect subscribes to
SetUpOnlyLoggedIn(user) ==
    IF user # NoUser
    THEN SetToBag({ProfileChannel(user)}) (+) SetToBag({MessageChannel(user)})
    ELSE EmptyBag
SetUp(user) ==
    SetToBag({ProfileChannel(user)})
        (+) (IF user # NoUser THEN SetToBag({MessageChannel(user)}) ELSE EmptyBag)

\* the cleanup of that run removes the channels it subscribed to
CleanUpKeepsMessageChannel(subscribed, user) ==
    subscribed (-) SetToBag({ProfileChannel(user)})
CleanUp(subscribed, user) == subscribed (-) SetUp(user)

\* user has changed: the cleanup of the last run, then the effect again
ResubscribedWithoutCleanUp(subscribed, old, new) == subscribed (+) SetUp(new)
Resubscribed(subscribed, old, new) == CleanUp(subscribed, old) (+) SetUp(new)

\* a user signs in: the effects keyed on user run again. The channels are
\* replaced by those of the new user, and loadMyProfile is called
SignIn(u) ==
    /\ mounted
    /\ AuthSignIn(u)
    /\ BagCardinality(loadCalls) < MaxLoads
    /\ channels' = Resubscribed(channels, session, u)
    /\ msgEvents' = 0
    /\ profEvents' = 0
    /\ loadCalls' = Started(loadCalls, [pc |-> "getMyProfile"])
    /\ UNCHANGED <<messages, mounted, unreadCount, showInboxModal, inboxLoad, sinceReset>>

\* the user signs out: the effects run again, loadMyProfile returns at once
\* (setMyProfile(null))
SignOut ==
    /\ mounted
    /\ AuthSignOut
    /\ channels' = Resubscribed(channels, session, NoUser)
    /\ msgEvents' = 0
    /\ profEvents' = 0
    /\ myProfile' = Null
    /\ UNCHANGED <<messages, mounted, unreadCount, loadCalls, showInboxModal, inboxLoad,
                   sinceReset>>

\* the component unmounts: the cleanup of the effect runs and the component's
\* state is gone (a call in progress finds nothing to set)
Unmount ==
    /\ mounted
    /\ mounted' = FALSE
    /\ channels' = CleanUp(channels, session)
    /\ msgEvents' = 0
    /\ profEvents' = 0
    /\ unreadCount' = 0
    /\ loadCalls' = EmptyBag
    /\ showInboxModal' = FALSE
    /\ sinceReset' = -1
    /\ members' = <<>>
    /\ dirLoads' = EmptyBag
    /\ myProfile' = Null
    /\ selectedMember' = Null
    /\ isEditing' = FALSE
    /\ editStatus' = ""
    /\ editCountdown' = ""
    /\ saving' = FALSE
    /\ UNCHANGED <<bvars, inboxLoad, saveCall, avatarCall, deleteCall, createCall, uiError>>

\* the component mounts: every state has its initial value and the effects run
Mount ==
    /\ ~mounted
    /\ mounted' = TRUE
    /\ channels' = channels (+) SetUp(session)
    /\ loadCalls' = IF session # NoUser
                    THEN Started(loadCalls, [pc |-> "getMyProfile"])
                    ELSE loadCalls
    /\ dirLoads' = Started(dirLoads, [pc |-> "getProfiles"])
    /\ UNCHANGED <<bvars, msgEvents, profEvents, unreadCount, showInboxModal, inboxLoad,
                   sinceReset, members, myProfile, evars>>

\* loadMyProfile: getMyProfile has answered (setMyProfile), getUnreadCount is called
loadMyProfile_ProfileResolved ==
    /\ \E c \in BagToSet(loadCalls), fails \in BOOLEAN :
          /\ c.pc = "getMyProfile"
          /\ myProfile' = getMyProfile(session, profiles, fails).value
          /\ loadCalls' = Moved(loadCalls, c, [pc |-> "getUnreadCount"])
    /\ UNCHANGED <<bvars, unreadCount, svars, msgEvents, showInboxModal, inboxLoad,
                   sinceReset>>

\* loadMyProfile: the backend answers getUnreadCount's query
loadMyProfile_CountQueried ==
    /\ \E c \in BagToSet(loadCalls), fails \in BOOLEAN :
          /\ c.pc = "getUnreadCount"
          /\ loadCalls' = Moved(loadCalls, c,
                                [pc |-> "setUnreadCount",
                                 count |-> getUnreadCount(session, messages, fails)])
    /\ UNCHANGED <<bvars, unreadCount, svars, msgEvents, showInboxModal, inboxLoad,
                   sinceReset>>

\* loadMyProfile: getUnreadCount has returned, setUnreadCount(count)
loadMyProfile_CountResolved ==
    /\ \E c \in BagToSet(loadCalls) :
          /\ c.pc = "setUnreadCount"
          /\ unreadCount' = c.count
          /\ loadCalls' = Ended(loadCalls, c)
    /\ UNCHANGED <<bvars, svars, msgEvents, showInboxModal, inboxLoad, sinceReset>>

\* the message channel's callback runs for one INSERT event
MessageInserted ==
    /\ msgEvents > 0
    /\ msgEvents' = msgEvents - 1
    /\ unreadCount' = Increment(unreadCount)
    /\ sinceReset' = IF sinceReset >= 0 THEN sinceReset + 1 ELSE sinceReset
    /\ UNCHANGED <<bvars, loadCalls, svars, showInboxModal, inboxLoad>>

\* the inbox button (rendered for a logged-in user): the modal opens, which
\* starts its loadMessages, and the counter is reset
OpenInbox ==
    /\ session # NoUser
    /\ ~showInboxModal
    /\ inboxLoad = Idle
    /\ showInboxModal' = TRUE
    /\ unreadCount' = 0
    /\ sinceReset' = 0
    /\ inboxLoad' = [pc |-> "getMyMessages"]
    /\ UNCHANGED <<bvars, loadCalls, svars, msgEvents>>

CloseInbox ==
    /\ showInboxModal
    /\ showInboxModal' = FALSE
    /\ UNCHANGED <<bvars, unreadCount, loadCalls, svars, msgEvents, inboxLoad,
                   sinceReset>>

\* InboxModal.loadMessages: getMyMessages has answered
loadMessages_Fetched(fails) ==
    /\ inboxLoad.pc = "getMyMessages"
    /\ LET unreadIds == IF session = NoUser \/ fails THEN {}
                        ELSE UnreadIds(messages, session)
       IN  inboxLoad' = IF unreadIds # {}
                        THEN [pc |-> "markMessagesAsRead", unreadIds |-> unreadIds]
                        ELSE Idle
    /\ UNCHANGED <<bvars, unreadCount, loadCalls, svars, msgEvents, showInboxModal,
                   sinceReset>>

\* InboxModal.loadMessages: markMessagesAsRead(unreadIds) has answered
loadMessages_Marked(fails) ==
    /\ inboxLoad.pc = "markMessagesAsRead"
    /\ messages' = IF fails THEN messages ELSE UpdateIsRead(messages, inboxLoad.unreadIds)
    /\ inboxLoad' = Idle
    /\ UNCHANGED <<session, unreadCount, loadCalls, svars, msgEvents, showInboxModal,
                   sinceReset>>

\* another client's sendMessage inserts a row
OtherClientSends(senderId, receiverId, content) ==
    /\ senderId # receiverId
    /\ Len(messages) < MaxMessages
    /\ messages' = StoreInsertMessage(messages, SendRow(senderId, receiverId, content))
    /\ EmitInsert(SendRow(senderId, receiverId, content))
    /\ UNCHANGED <<session, unreadCount, loadCalls, svars, showInboxModal, inboxLoad,
                   sinceReset>>

-----------------------------------------------------------------------------
(* The ConnectionMap component: the directory and the profile card. *)
\* s || d for strings
OrElse(s, d) == IF s = "" THEN d ELSE s

\* the pin of a profile
profileToMember(profile) ==
    [id |-> profile.id,
     userId |-> profile.user_id,
     status |-> OrElse(profile.status_text, ""),
     countdown |-> OrElse(profile.return_date, "pending"),
     avatar |-> OrElse(profile.avatar_url, "default.svg")]

MapSeq(xs, F(_)) == [i \in 1..Len(xs) |-> F(xs[i])]

\* setMembers(profiles.map(profileToMember))
ReplacedKeepingPatched(prev, fetched) ==
    LET Kept(row) == IF \E i \in 1..Len(prev) : prev[i].id = row.id
                     THEN prev[CHOOSE i \in 1..Len(prev) : prev[i].id = row.id]
                     ELSE profileToMember(row)
    IN  MapSeq(fetched, Kept)
ReplacedUnlessEmpty(prev, fetched) ==
    IF fetched = <<>> THEN prev ELSE MapSeq(fetched, profileToMember)
Replaced(prev, fetched) == MapSeq(fetched, profileToMember)

isMyProfile(user, member) == user # NoUser /\ member.userId = user

\* the profile channel's callback runs for one event: loadProfiles()
ProfileChanged ==
    /\ profEvents > 0
    /\ BagCardinality(dirLoads) < MaxDirLoads
    /\ profEvents' = profEvents - 1
    /\ dirLoads' = Started(dirLoads, [pc |-> "getProfiles"])
    /\ UNCHANGED <<bvars, pvars, mounted, channels, members, myProfile, evars>>

\* loadProfiles: the backend answers getProfiles' query
loadProfiles_Fetched(fails) ==
    /\ \E c \in BagToSet(dirLoads) :
          /\ c.pc = "getProfiles"
          /\ dirLoads' = Moved(dirLoads, c, [pc |-> "setMembers",
                                             failed |-> fails,
                                             result |-> getProfiles(profiles, fails)])
    /\ UNCHANGED <<bvars, pvars, svars, members, myProfile, evars>>

\* loadProfiles: getProfiles has returned, setMembers (or the catch)
loadProfiles_Resolved ==
    /\ \E c \in BagToSet(dirLoads) :
          /\ c.pc = "setMembers"
          /\ members' = IF c.result.kind = "resolved"
                        THEN Replaced(members, c.result.value)
                        ELSE members
          /\ dirLoads' = Ended(dirLoads, c)
    /\ UNCHANGED <<bvars, pvars, svars, myProfile, evars>>

\* a marker is clicked: the card shows that pin
SelectMember(i) ==
    /\ i \in 1..Len(members)
    /\ selectedMember' = members[i]
    /\ isEditing' = FALSE
    /\ UNCHANGED <<bvars, pvars, svars, lvars, myProfile, editStatus, editCountdown,
                   saving, saveCall, avatarCall, deleteCall, createCall, uiError>>

\* the card's close button
CloseCard ==
    /\ selectedMember # Null
    /\ selectedMember' = Null
    /\ isEditing' = FALSE
    /\ UNCHANGED <<bvars, pvars, svars, lvars, myProfile, editStatus, editCountdown,
                   saving, saveCall, avatarCall, deleteCall, createCall, uiError>>

\* the edit button, rendered on the user's own pin
StartEdit ==
    /\ selectedMember # Null
    /\ ~isEditing
    /\ isMyProfile(session, selectedMember)
    /\ editStatus' = selectedMember.status
    /\ editCountdown' = selectedMember.countdown
    /\ isEditing' = TRUE
    /\ UNCHANGED <<bvars, pvars, svars, lvars, myProfile, selectedMember,
                   saving, saveCall, avatarCall, deleteCall, createCall, uiError>>

\* the edit form is rendered
EditFormShown ==
    /\ selectedMember # Null
    /\ isEditing
    /\ isMyProfile(session, selectedMember)

\* the user types a status
TypeStatus(text) ==
    /\ EditFormShown
    /\ editStatus' = text
    /\ UNCHANGED <<bvars, pvars, svars, lvars, myProfile, selectedMember, isEditing,
                   editCountdown, saving, saveCall, avatarCall, deleteCall, createCall,
                   uiError>>

\* the cancel button
CancelEdit ==
    /\ EditFormShown
    /\ isEditing' = FALSE
    /\ UNCHANGED <<bvars, pvars, svars, lvars, myProfile, selectedMember, editStatus,
                   editCountdown, saving, saveCall, avatarCall, deleteCall, createCall,
                   uiError>>

\* what the user is shown when an operation started from the UI has ended:
\* alert(err.message) or setError(err.message) for an error that was thrown
Shown(error, thrown) == IF thrown THEN error ELSE NoError

\* ---- handleSaveProfile
\* the pin the handler builds: { ...selectedMember, status, countdown }
Updated(call) ==
    [call.selected EXCEPT !.status = call.status, !.countdown = call.countdown]

\* setMembers(prev => prev.map(m => m.id === selectedMember.id ? updated : m))
WithPinLeftToRealtime(prev, pin) == prev
WithPin(prev, pin) ==
    [i \in 1..Len(prev) |-> IF prev[i].id = pin.id THEN pin ELSE prev[i]]

\* the save button: setSaving(true), updateProfile is called
handleSaveProfile_Begin ==
    /\ EditFormShown
    /\ ~saving
    /\ saveCall = Idle
    /\ saving' = TRUE
    /\ saveCall' = [pc |-> "getUser", selected |-> selectedMember,
                    status |-> editStatus, countdown |-> editCountdown]
    /\ UNCHANGED <<bvars, pvars, svars, lvars, myProfile, selectedMember, isEditing,
                   editStatus, editCountdown, avatarCall, deleteCall, createCall,
                   uiError>>

\* updateProfile: getUser has answered
handleSaveProfile_GotUser ==
    /\ saveCall.pc = "getUser"
    /\ saveCall' = IF ProfileRefused(session)
                   THEN [pc |-> "returned", selected |-> saveCall.selected,
                         status |-> saveCall.status, countdown |-> saveCall.countdown,
                         error |-> NotLoggedIn]
                   ELSE [pc |-> "update", selected |-> saveCall.selected,
                         status |-> saveCall.status, countdown |-> saveCall.countdown,
                         user |-> session]
    /\ UNCHANGED <<bvars, pvars, svars, lvars, myProfile, selectedMember, isEditing,
                   editStatus, editCountdown, saving, avatarCall, deleteCall, createCall,
                   uiError>>

\* updateProfile: the update reaches the backend, which performs it or fails
handleSaveProfile_Update(fails) ==
    /\ saveCall.pc = "update"
    /\ LET Mine(row) == OwnRow(row, saveCall.selected.id, saveCall.user)
       IN  IF fails
           THEN UNCHANGED <<profiles, profEvents>>
           ELSE /\ profiles' = StoreUpdate(profiles, Mine,
                                           [status_text |-> saveCall.status,
                                            return_date |-> saveCall.countdown])
                /\ EmitProfileChange(Cardinality(Matching(profiles, Mine)))
    /\ saveCall' = [pc |-> "returned", selected |-> saveCall.selected,
                    status |-> saveCall.status, countdown |-> saveCall.countdown,
                    error |-> IF fails THEN StoreError ELSE NoError]
    /\ UNCHANGED <<bvars, profileSeq, mounted, channels, lvars, myProfile,
                   selectedMember, isEditing, editStatus, editCountdown, saving,
                   avatarCall, deleteCall, createCall, uiError>>

\* updateProfile has returned: the local update, or the alert of the catch
handleSaveProfile_Resolved ==
    /\ saveCall.pc = "returned"
    /\ IF saveCall.error # NoError
       THEN UNCHANGED <<members, selectedMember, isEditing>>
       ELSE /\ members' = WithPin(members, Updated(saveCall))
            /\ selectedMember' = Updated(saveCall)
            /\ isEditing' = FALSE
    /\ uiError' = Shown(saveCall.error, TRUE)
    /\ saving' = FALSE
    /\ saveCall' = Idle
    /\ UNCHANGED <<bvars, pvars, svars, dirLoads, myProfile, editStatus, editCountdown,
                   avatarCall, deleteCall, createCall>>

\* ---- AvatarUpload.handleUpload and handleAvatarUpdate
\* members.map(m => m.id === selectedMember.id ? { ...m, avatar: newUrl } : m)
WithAvatarUnpatched(prev, id, newUrl) == prev
WithAvatar(prev, id, newUrl) ==
    [i \in 1..Len(prev) |->
        IF prev[i].id = id THEN [prev[i] EXCEPT !.avatar = newUrl] ELSE prev[i]]

\* what handleAvatarUpdate does to the directory once the update has answered
AfterAvatarUpdateRollsBack(prev, call) ==
    IF call.error # NoError THEN WithAvatar(prev, call.selected.id, call.selected.avatar)
    ELSE prev
AfterAvatarUpdate(prev, call) == prev

\* a file is chosen in the edit form: the upload starts. The handler holds the
\* handleAvatarUpdate of this render, with its members and selectedMember
AvatarUpload_Begin ==
    /\ EditFormShown
    /\ avatarCall = Idle
    /\ avatarCall' = [pc |-> "upload", members |-> members, selected |-> selectedMember]
    /\ UNCHANGED <<bvars, pvars, svars, lvars, myProfile, selectedMember, isEditing,
                   editStatus, editCountdown, saving, saveCall, deleteCall, createCall,
                   uiError>>

\* the upload has answered: the alert of the catch, or handleAvatarUpdate(newUrl)
\* up to its await (the optimistic update)
AvatarUpload_Uploaded(fails, newUrl) ==
    /\ avatarCall.pc = "upload"
    /\ IF fails
       THEN /\ uiError' = Shown(StoreError, TRUE)
            /\ avatarCall' = Idle
            /\ UNCHANGED <<members, selectedMember>>
       ELSE /\ members' = WithAvatar(avatarCall.members, avatarCall.selected.id, newUrl)
            /\ selectedMember' = [avatarCall.selected EXCEPT !.avatar = newUrl]
            /\ avatarCall' = [pc |-> "update", selected |-> avatarCall.selected,
                              avatar |-> newUrl]
            /\ UNCHANGED uiError
    /\ UNCHANGED <<bvars, pvars, svars, dirLoads, myProfile, isEditing, editStatus,
                   editCountdown, saving, saveCall, deleteCall, createCall>>

\* .update({ avatar_url: newUrl }).eq('id', selectedMember.id) reaches the
\* backend, which performs it or fails
handleAvatarUpdate_Update(fails) ==
    /\ avatarCall.pc = "update"
    /\ LET ById(row) == row.id = avatarCall.selected.id
       IN  IF fails
           THEN UNCHANGED <<profiles, profEvents>>
           ELSE /\ profiles' = StoreUpdate(profiles, ById,
                                           [avatar_url |-> avatarCall.avatar])
                /\ EmitProfileChange(Cardinality(Matching(profiles, ById)))
    /\ avatarCall' = [pc |-> "returned", selected |-> avatarCall.selected,
                      avatar |-> avatarCall.avatar,
                      error |-> IF fails THEN StoreError ELSE NoError]
    /\ UNCHANGED <<bvars, profileSeq, mounted, channels, lvars, myProfile,
                   selectedMember, isEditing, editStatus, editCountdown, saving,
                   saveCall, deleteCall, createCall, uiError>>

\* the update has answered: setIsEditing(false), whatever the answer
handleAvatarUpdate_Resolved ==
    /\ avatarCall.pc = "returned"
    /\ members' = AfterAvatarUpdate(members, avatarCall)
    /\ isEditing' = FALSE
    /\ uiError' = Shown(avatarCall.error, FALSE)
    /\ avatarCall' = Idle
    /\ UNCHANGED <<bvars, pvars, svars, dirLoads, myProfile, selectedMember, editStatus,
                   editCountdown, saving, saveCall, deleteCall, createCall>>

\* ---- handleDeleteProfile
\* setMembers(prev => prev.filter(m => m.id !== selectedMember.id))
WithoutPin(prev, id) ==
    LET Others(m) == m.id # id IN SelectSeq(prev, Others)

\* the delete button, confirmed: deleteProfile is called
handleDeleteProfile_Begin ==
    /\ EditFormShown
    /\ deleteCall = Idle
    /\ deleteCall' = [pc |-> "getUser", selected |-> selectedMember]
    /\ UNCHANGED <<bvars, pvars, svars, lvars, myProfile, selectedMember, isEditing,
                   editStatus, editCountdown, saving, saveCall, avatarCall, createCall,
                   uiError>>

\* deleteProfile: getUser has answered
handleDeleteProfile_GotUser ==
    /\ deleteCall.pc = "getUser"
    /\ deleteCall' = IF ProfileRefused(session)
                     THEN [pc |-> "returned", selected |-> deleteCall.selected,
                           error |-> NotLoggedIn]
                     ELSE [pc |-> "delete", selected |-> deleteCall.selected,
                           user |-> session]
    /\ UNCHANGED <<bvars, pvars, svars, lvars, myProfile, selectedMember, isEditing,
                   editStatus, editCountdown, saving, saveCall, avatarCall, createCall,
                   uiError>>

\* deleteProfile: the delete reaches the backend, which performs it or fails
handleDeleteProfile_Delete(fails) ==
    /\ deleteCall.pc = "delete"
    /\ LET Mine(row) == OwnRow(row, deleteCall.selected.id, deleteCall.user)
       IN  IF fails
           THEN UNCHANGED <<profiles, profEvents>>
           ELSE /\ profiles' = StoreDelete(profiles, Mine)
                /\ EmitProfileChange(Cardinality(Matching(profiles, Mine)))
    /\ deleteCall' = [pc |-> "returned", selected |-> deleteCall.selected,
                      error |-> IF fails THEN StoreError ELSE NoError]
    /\ UNCHANGED <<bvars, profileSeq, mounted, channels, lvars, myProfile,
                   selectedMember, isEditing, editStatus, editCountdown, saving,
                   saveCall, avatarCall, createCall, uiError>>

\* deleteProfile has returned { error }: nothing was thrown, so the pin is
\* removed from the directory and the card closed, whatever the error
handleDeleteProfile_Resolved ==
    /\ deleteCall.pc = "returned"
    /\ members' = WithoutPin(members, deleteCall.selected.id)
    /\ selectedMember' = Null
    /\ myProfile' = Null
    /\ uiError' = Shown(deleteCall.error, FALSE)
    /\ deleteCall' = Idle
    /\ UNCHANGED <<bvars, pvars, svars, dirLoads, isEditing, editStatus, editCountdown,
                   saving, saveCall, avatarCall, createCall>>

\* ---- AddProfileModal: the city search
\* what the input holds after a keystroke
CityInputs == {"c", "ch", "chi"}

\* what the fetch of /api/geocode?q=... settles with
GeocodeReplies ==
    {Throws, Response(FALSE, Json(ErrorBody("Failed to fetch location data")))}
        \cup {Response(TRUE, Json(Arr(cs))) : cs \in SeqsUpTo(Candidates, 1)}

\* display_name.split(',')[0]
SplitFirst(display_name) ==
    CASE display_name = "Chiang Mai, Thailand" -> "Chiang Mai"
      [] display_name = "New York, USA" -> "New York"
      [] OTHER -> display_name

\* the handle setTimeout returns
Timeout(id) == [t |-> "timeout", id |-> id]

\* if (debounceTimerRef.current) clearTimeout(debounceTimerRef.current), then
\* setTimeout(...)
RescheduledWithoutClear(pending, ref, timer) == pending \cup {timer}
Rescheduled(pending, ref, timer) == {t \in pending : t.handle # ref} \cup {timer}

\* a keystroke in the city input (value={cityQuery}: it changes what the input
\* holds)
handleCityInputChange(value) ==
    /\ Len(typed) < MaxKeystrokes
    /\ value # cityQuery
    /\ cityQuery' = value
    /\ selectedCity' = Null
    /\ LET handle == Timeout(Len(typed) + 1)
       IN  /\ timers' = Rescheduled(timers, debounceTimerRef,
                                    [handle |-> handle, value |-> value])
           /\ debounceTimerRef' = handle
    /\ typed' = Append(typed, value)
    /\ UNCHANGED <<cityResults, searching, searches, searchSeq, listSeq>>

\* 300 ms have passed since a timeout was set and it was not cleared: its
\* callback runs searchCity(value) up to the await of the fetch, then
\* debounceTimerRef.current = null
Timeout_Expires ==
    /\ \E timer \in timers :
          /\ timers' = timers \ {timer}
          /\ IF Len(timer.value) < 2
             THEN /\ cityResults' = <<>>
                  /\ UNCHANGED <<searching, searches, searchSeq>>
             ELSE /\ searchSeq < MaxSearches
                  /\ searching' = TRUE
                  /\ searches' = searches \cup {[seq |-> searchSeq + 1,
                                                 query |-> timer.value,
                                                 key |-> timer.handle.id]}
                  /\ searchSeq' = searchSeq + 1
                  /\ UNCHANGED cityResults
    /\ debounceTimerRef' = Null
    /\ UNCHANGED <<cityQuery, selectedCity, typed, listSeq>>

\* what searchCity stores when its fetch has settled with `reply`: the data, or
\* nothing (the catch)
Stored(reply) ==
    IF reply.kind = "throw" THEN None
    ELSE IF ~reply.ok THEN None
    ELSE reply.body.value

\* searchCity: the fetch of a search has settled
searchCity_Settled(reply) ==
    /\ \E s \in searches :
          /\ searches' = searches \ {s}
          /\ IF Stored(reply) # None
             THEN /\ cityResults' = Stored(reply).items
                  /\ listSeq' = s.seq
             ELSE UNCHANGED <<cityResults, listSeq>>
    /\ searching' = FALSE
    /\ UNCHANGED <<cityQuery, selectedCity, debounceTimerRef, timers, typed, searchSeq>>

\* a candidate of the list is clicked
handleCitySelect(i) ==
    /\ i \in 1..Len(cityResults)
    /\ selectedCity' = cityResults[i]
    /\ cityQuery' = SplitFirst(cityResults[i].display_name)
    /\ cityResults' = <<>>
    /\ listSeq' = searchSeq
    /\ UNCHANGED <<searching, debounceTimerRef, timers, searches, typed, searchSeq>>

\* resetForm, as far as the city search goes
resetForm ==
    /\ cityQuery' = ""
    /\ selectedCity' = Null
    /\ cityResults' = <<>>
    /\ listSeq' = searchSeq

\* ---- AddProfileModal.handleSubmit
\* the form is submitted (the button that opens it is rendered for a user
\* without a profile): createProfile is called
AddProfile_Submit(profile) ==
    /\ session # NoUser
    /\ myProfile = Null
    /\ createCall = Idle
    /\ createCall' = [pc |-> "getUser", profile |-> profile]
    /\ UNCHANGED <<bvars, pvars, svars, loadCalls, lvars, myProfile, selectedMember,
                   isEditing, editStatus, editCountdown, saving, saveCall, avatarCall,
                   deleteCall, uiError>>

\* createProfile: getUser has answered
AddProfile_GotUser ==
    /\ createCall.pc = "getUser"
    /\ createCall' = IF ProfileRefused(session)
                     THEN [pc |-> "returned", error |-> NotLoggedIn]
                     ELSE [pc |-> "insert", profile |-> createCall.profile,
                           user |-> session]
    /\ UNCHANGED <<bvars, pvars, svars, loadCalls, lvars, myProfile, selectedMember,
                   isEditing, editStatus, editCountdown, saving, saveCall, avatarCall,
                   deleteCall, uiError>>

\* createProfile: the insert reaches the backend, which performs it or fails
AddProfile_Insert(fails) ==
    /\ createCall.pc = "insert"
    /\ IF fails
       THEN UNCHANGED <<pvars, profEvents>>
       ELSE /\ profileSeq < MaxProfiles
            /\ profiles' = StoreInsertProfile(profiles, profileSeq,
                               [user_id |-> createCall.user,
                                status_text |-> createCall.profile.status_text,
                                return_date |-> createCall.profile.return_date,
                                avatar_url |-> createCall.profile.avatar_url])
            /\ profileSeq' = profileSeq + 1
            /\ EmitProfileChange(1)
    /\ createCall' = [pc |-> "returned", error |-> IF fails THEN StoreError ELSE NoError]
    /\ UNCHANGED <<bvars, mounted, channels, loadCalls, lvars, myProfile, selectedMember,
                   isEditing, editStatus, editCountdown, saving, saveCall, avatarCall,
                   deleteCall, uiError>>

\* createProfile has returned: the inline error, or onSuccess (loadProfiles and
\* loadMyProfile are called)
AddProfile_Resolved ==
    /\ createCall.pc = "returned"
    /\ IF createCall.error # NoError
       THEN UNCHANGED <<dirLoads, loadCalls, myProfile>>
       ELSE /\ BagCardinality(dirLoads) < MaxDirLoads
            /\ dirLoads' = Started(dirLoads, [pc |-> "getProfiles"])
            /\ IF session # NoUser
               THEN /\ BagCardinality(loadCalls) < MaxLoads
                    /\ loadCalls' = Started(loadCalls, [pc |-> "getMyProfile"])
                    /\ UNCHANGED myProfile
               ELSE /\ myProfile' = Null
                    /\ UNCHANGED loadCalls
    /\ IF createCall.error # NoError
       THEN UNCHANGED <<cityQuery, selectedCity, cityResults, listSeq>>
       ELSE resetForm
    /\ uiError' = Shown(createCall.error, TRUE)
    /\ createCall' = Idle
    /\ UNCHANGED <<bvars, pvars, svars, members, selectedMember, isEditing, editStatus,
                   editCountdown, saving, saveCall, avatarCall, deleteCall>>

\* getUnreadCount, called directly
getUnreadCount_Call(fails) ==
    /\ profCall = Idle
    /\ profCall' = Read("getUnreadCount", session, fails,
                        Resolved(getUnreadCount(session, messages, fails)))
    /\ UNCHANGED <<bvars, pvars>>

\* the AddProfileModal before anything is typed
SearchInit ==
    /\ cityQuery = ""
    /\ selectedCity = Null
    /\ cityResults = <<>>
    /\ searching = FALSE
    /\ debounceTimerRef = Null
    /\ timers = {}
    /\ searches = {}
    /\ typed = <<>>
    /\ searchSeq = 0
    /\ listSeq = 0

\* the profile card, the modal and the calls started from them
CardInit ==
    /\ selectedMember = Null
    /\ isEditing = FALSE
    /\ editStatus = ""
    /\ editCountdown = ""
    /\ saving = FALSE
    /\ saveCall = Idle
    /\ avatarCall = Idle
    /\ deleteCall = Idle
    /\ createCall = Idle
    /\ uiError = NoError
    /\ SearchInit
    /\ atEvent = -1

CompInit ==
    /\ unreadCount = 0
    /\ loadCalls = EmptyBag
    /\ mounted = TRUE
    /\ channels = SetUp(NoUser)
    /\ msgEvents = 0
    /\ profEvents = 0
    /\ showInboxModal = FALSE
    /\ inboxLoad = Idle
    /\ sinceReset = -1
    /\ members = <<>>
    /\ dirLoads = SetToBag({[pc |-> "getProfiles"]})
    /\ myProfile = Null
    /\ CardInit

GeoInit ==
    /\ gPc = "idle"
    /\ gQuery = None
    /\ gRequests = <<>>
    /\ gPrimary = None
    /\ gSecondary = None
    /\ gResponse = None
    /\ gEscaped = FALSE

Init == GeoInit /\ StoreInit /\ CompInit

\* the component, its modals and the other clients
Next ==
    \/ \E u \in Users : SignIn(u) /\ UNCHANGED <<tvars, wvars, gvars, dvars, pvars, qvars, mvars>>
    \/ SignOut /\ UNCHANGED <<tvars, wvars, gvars, dvars, pvars, qvars, lvars, evars>>
    \/ Unmount /\ UNCHANGED <<tvars, wvars, gvars, dvars, pvars, qvars>>
    \/ Mount /\ UNCHANGED <<tvars, wvars, gvars, dvars, pvars, qvars>>
    \/ loadMyProfile_ProfileResolved /\ UNCHANGED <<tvars, wvars, gvars, dvars, pvars, qvars, lvars, evars>>
    \/ loadMyProfile_CountQueried /\ UNCHANGED <<tvars, wvars, gvars, dvars, pvars, qvars, mvars>>
    \/ loadMyProfile_CountResolved /\ UNCHANGED <<tvars, wvars, gvars, dvars, pvars, qvars, mvars>>
    \/ MessageInserted /\ UNCHANGED <<tvars, wvars, gvars, dvars, pvars, qvars, mvars>>
    \/ OpenInbox /\ UNCHANGED <<tvars, wvars, gvars, dvars, pvars, qvars, mvars>>
    \/ CloseInbox /\ UNCHANGED <<tvars, wvars, gvars, dvars, pvars, qvars, mvars>>
    \/ \E fails \in BOOLEAN : loadMessages_Fetched(fails) /\ UNCHANGED <<tvars, wvars, gvars, dvars, pvars, qvars, mvars>>
    \/ \E fails \in BOOLEAN : loadMessages_Marked(fails) /\ UNCHANGED <<tvars, wvars, gvars, dvars, pvars, qvars, mvars>>
    \/ \E s \in Users, r \in Users, c \in Contents :
          OtherClientSends(s, r, c) /\ UNCHANGED <<tvars, wvars, gvars, dvars, pvars, qvars, mvars>>

Spec == Init /\ [][Next]_vars

\* the gateway alone
NextGeocode ==
    \/ GET_Begin /\ UNCHANGED <<tvars, wvars, bvars, dvars, cvars, pvars, qvars, mvars>>
    \/ GET_PrimarySettled /\ UNCHANGED <<tvars, wvars, bvars, dvars, cvars, pvars, qvars, mvars>>
    \/ GET_SecondarySettled /\ UNCHANGED <<tvars, wvars, bvars, dvars, cvars, pvars, qvars, mvars>>
    \/ GET_Next /\ UNCHANGED <<tvars, wvars, bvars, dvars, cvars, pvars, qvars, mvars>>

SpecGeocode == Init /\ [][NextGeocode]_vars

\* sendMessage called directly, in any session
NextStore ==
    \/ \E u \in Users : AuthSignIn(u) /\ UNCHANGED <<tvars, wvars, gvars, cvars, dvars, messages, pvars, qvars, mvars>>
    \/ AuthSignOut /\ UNCHANGED <<tvars, wvars, gvars, cvars, dvars, messages, pvars, qvars, mvars>>
    \/ \E r \in Users, c \in Contents :
          sendMessage_Begin(r, c)
              /\ UNCHANGED <<tvars, wvars, gvars, lastMark, unreadCount, loadCalls, svars,
                             showInboxModal, inboxLoad, sinceReset, pvars, qvars, mvars>>
    \/ \E fails \in BOOLEAN :
          sendMessage_Insert(fails)
              /\ UNCHANGED <<tvars, wvars, gvars, lastMark, unreadCount, loadCalls, svars,
                             showInboxModal, inboxLoad, sinceReset, pvars, qvars, mvars>>
    \/ sendMessage_Return
          /\ UNCHANGED <<tvars, wvars, gvars, lastMark, unreadCount, loadCalls, svars,
                         showInboxModal, inboxLoad, sinceReset, pvars, qvars, mvars>>

SpecStore == Init /\ [][NextStore]_vars

\* the rows the messages collection may hold: ids in creation order
MessageRows(id) ==
    {[id |-> id, sender_id |-> s, receiver_id |-> r, content |-> c, is_read |-> b] :
        s \in Users, r \in Users, c \in Contents, b \in BOOLEAN}
MessageStores ==
    UNION {{rows \in [1..k -> UNION {MessageRows(i) : i \in 1..k}] :
                \A i \in 1..k : rows[i].id = i} : k \in 0..MaxMessages}

\* markMessagesAsRead called directly, on any messages collection
InitMark ==
    /\ GeoInit
    /\ CompInit
    /\ session \in Users \cup {NoUser}
    /\ messages \in MessageStores
    /\ sendCall = Idle
    /\ lastMark = None
    /\ profiles = <<>>
    /\ profileSeq = 0
    /\ profCall = Idle

NextMark ==
    \/ \E ids \in SUBSET MessageIds, fails \in BOOLEAN :
          markMessagesAsRead(ids, fails)
              /\ UNCHANGED <<tvars, wvars, gvars, sendCall, unreadCount, loadCalls, svars,
                             showInboxModal, inboxLoad, sinceReset, pvars, qvars, mvars>>

SpecMark == InitMark /\ [][NextMark]_vars

\* the component when it is not mounted
CompGone ==
    /\ unreadCount = 0
    /\ loadCalls = EmptyBag
    /\ mounted = FALSE
    /\ channels = EmptyBag
    /\ msgEvents = 0
    /\ profEvents = 0
    /\ showInboxModal = FALSE
    /\ inboxLoad = Idle
    /\ sinceReset = -1
    /\ members = <<>>
    /\ dirLoads = EmptyBag
    /\ myProfile = Null
    /\ CardInit

\* the profiles a form submits and the edits a caller asks for
NewProfiles == {[status_text |-> "", return_date |-> "", avatar_url |-> "seed.svg"]}
EditValues == {[status_text |-> "busy", return_date |-> "soon"],
               [status_text |-> "", return_date |-> ""]}

\* createProfile, updateProfile and deleteProfile called directly, in any session
InitProfiles == GeoInit /\ StoreInit /\ CompGone

NextProfiles ==
    \/ \E u \in Users : AuthSignIn(u) /\ UNCHANGED <<tvars, wvars, gvars, cvars, dvars, messages, pvars, qvars, mvars>>
    \/ AuthSignOut /\ UNCHANGED <<tvars, wvars, gvars, cvars, dvars, messages, pvars, qvars, mvars>>
    \/ \E profile \in NewProfiles :
          createProfile_Begin(profile)
              /\ UNCHANGED <<tvars, wvars, gvars, dvars, messages, unreadCount, loadCalls, mounted,
                             channels, msgEvents, showInboxModal, inboxLoad, sinceReset,
                             mvars>>
    \/ \E fails \in BOOLEAN :
          createProfile_Insert(fails)
              /\ UNCHANGED <<tvars, wvars, gvars, dvars, messages, unreadCount, loadCalls, mounted,
                             channels, msgEvents, showInboxModal, inboxLoad, sinceReset,
                             mvars>>
    \/ \E id \in ProfileIds, updates \in EditValues :
          updateProfile_Begin(id, updates)
              /\ UNCHANGED <<tvars, wvars, gvars, dvars, messages, unreadCount, loadCalls, mounted,
                             channels, msgEvents, showInboxModal, inboxLoad, sinceReset,
                             mvars>>
    \/ \E fails \in BOOLEAN :
          updateProfile_Update(fails)
              /\ UNCHANGED <<tvars, wvars, gvars, dvars, messages, unreadCount, loadCalls, mounted,
                             channels, msgEvents, showInboxModal, inboxLoad, sinceReset,
                             mvars>>
    \/ \E id \in ProfileIds :
          deleteProfile_Begin(id)
              /\ UNCHANGED <<tvars, wvars, gvars, dvars, messages, unreadCount, loadCalls, mounted,
                             channels, msgEvents, showInboxModal, inboxLoad, sinceReset,
                             mvars>>
    \/ \E fails \in BOOLEAN :
          deleteProfile_Delete(fails)
              /\ UNCHANGED <<tvars, wvars, gvars, dvars, messages, unreadCount, loadCalls, mounted,
                             channels, msgEvents, showInboxModal, inboxLoad, sinceReset,
                             mvars>>
    \/ profCall_Return
          /\ UNCHANGED <<tvars, wvars, gvars, dvars, messages, unreadCount, loadCalls, mounted,
                         channels, msgEvents, showInboxModal, inboxLoad, sinceReset,
                             mvars>>

SpecProfiles == InitProfiles /\ [][NextProfiles]_vars

\* the rows the profiles collection may hold: ids in creation order
ProfileRows(id) ==
    {[id |-> id, user_id |-> u, status_text |-> "", return_date |-> "soon",
      avatar_url |-> "seed.svg"] : u \in Users}
ProfileStores ==
    UNION {{rows \in [1..k -> UNION {ProfileRows(i) : i \in 1..k}] :
                \A i \in 1..k : rows[i].id = i} : k \in 0..MaxProfiles}

\* getProfiles, getMyProfile and getUnreadCount called directly, in any session
\* and on any collections
InitReads ==
    /\ GeoInit
    /\ CompGone
    /\ session \in Users \cup {NoUser}
    /\ messages \in MessageStores
    /\ profiles \in ProfileStores
    /\ profileSeq = Len(profiles)
    /\ sendCall = Idle
    /\ lastMark = None
    /\ profCall = Idle

NextReads ==
    \/ \E fails \in BOOLEAN : getProfiles_Call(fails) /\ UNCHANGED <<tvars, wvars, gvars, dvars, cvars, mvars>>
    \/ \E fails \in BOOLEAN : getMyProfile_Call(fails) /\ UNCHANGED <<tvars, wvars, gvars, dvars, cvars, mvars>>
    \/ \E fails \in BOOLEAN : getUnreadCount_Call(fails) /\ UNCHANGED <<tvars, wvars, gvars, dvars, cvars, mvars>>
    \/ profCall_Return /\ UNCHANGED <<tvars, wvars, gvars, dvars, messages, unreadCount, loadCalls,
                                       mounted, channels, msgEvents, showInboxModal,
                                       inboxLoad, sinceReset, mvars>>

SpecReads == InitReads /\ [][NextReads]_vars

\* no user owns two rows (the button that opens the AddProfileModal is
\* rendered for a user without a profile)
OnePerUser(rows) ==
    \A i, j \in 1..Len(rows) : rows[i].user_id = rows[j].user_id => i = j

\* no operation started from the card is in progress
CardQuiet ==
    /\ saveCall = Idle
    /\ avatarCall = Idle
    /\ deleteCall = Idle
    /\ createCall = Idle

\* the directory loaded for a user who is signed in, nothing in progress
Loaded ==
    /\ GeoInit
    /\ session \in Users
    /\ messages = <<>>
    /\ sendCall = Idle
    /\ lastMark = None
    /\ profiles \in {rows \in ProfileStores : OnePerUser(rows)}
    /\ profileSeq = Len(profiles)
    /\ profCall = Idle
    /\ unreadCount = 0
    /\ loadCalls = EmptyBag
    /\ mounted = TRUE
    /\ channels = SetUp(session)
    /\ msgEvents = 0
    /\ showInboxModal = FALSE
    /\ inboxLoad = Idle
    /\ sinceReset = -1
    /\ members = Replaced(<<>>, profiles)
    /\ dirLoads = EmptyBag
    /\ myProfile = getMyProfile(session, profiles, FALSE).value
    /\ CardInit

InitCard == Loaded /\ profEvents = 0

\* the profile card: the edits of the user's own pin, one operation at a
\* time, and the directory loads their change events start
NextCard ==
    \/ SignOut /\ UNCHANGED <<tvars, wvars, gvars, dvars, pvars, qvars, lvars, evars>>
    \/ \E i \in ProfileIds : SelectMember(i) /\ UNCHANGED <<tvars, wvars, gvars, dvars, qvars, DirRest>>
    \/ CloseCard /\ UNCHANGED <<tvars, wvars, gvars, dvars, qvars, DirRest>>
    \/ StartEdit /\ UNCHANGED <<tvars, wvars, gvars, dvars, qvars, DirRest>>
    \/ \E text \in StatusTexts : TypeStatus(text) /\ UNCHANGED <<tvars, wvars, gvars, dvars, qvars, DirRest>>
    \/ CancelEdit /\ UNCHANGED <<tvars, wvars, gvars, dvars, qvars, DirRest>>
    \/ CardQuiet /\ handleSaveProfile_Begin /\ UNCHANGED <<tvars, wvars, gvars, dvars, qvars, DirRest>>
    \/ handleSaveProfile_GotUser /\ UNCHANGED <<tvars, wvars, gvars, dvars, qvars, DirRest>>
    \/ \E fails \in BOOLEAN : handleSaveProfile_Update(fails) /\ UNCHANGED <<tvars, wvars, gvars, dvars, qvars, DirRest>>
    \/ handleSaveProfile_Resolved /\ UNCHANGED <<tvars, wvars, gvars, dvars, qvars, DirRest>>
    \/ CardQuiet /\ AvatarUpload_Begin /\ UNCHANGED <<tvars, wvars, gvars, dvars, qvars, DirRest>>
    \/ \E fails \in BOOLEAN : AvatarUpload_Uploaded(fails, "up.png") /\ UNCHANGED <<tvars, wvars, gvars, dvars, qvars, DirRest>>
    \/ \E fails \in BOOLEAN : handleAvatarUpdate_Update(fails) /\ UNCHANGED <<tvars, wvars, gvars, dvars, qvars, DirRest>>
    \/ handleAvatarUpdate_Resolved /\ UNCHANGED <<tvars, wvars, gvars, dvars, qvars, DirRest>>
    \/ CardQuiet /\ handleDeleteProfile_Begin /\ UNCHANGED <<tvars, wvars, gvars, dvars, qvars, DirRest>>
    \/ handleDeleteProfile_GotUser /\ UNCHANGED <<tvars, wvars, gvars, dvars, qvars, DirRest>>
    \/ \E fails \in BOOLEAN : handleDeleteProfile_Delete(fails) /\ UNCHANGED <<tvars, wvars, gvars, dvars, qvars, DirRest>>
    \/ handleDeleteProfile_Resolved /\ UNCHANGED <<tvars, wvars, gvars, dvars, qvars, DirRest>>
    \/ \E profile \in NewProfiles :
          CardQuiet /\ AddProfile_Submit(profile)
              /\ UNCHANGED <<tvars, wvars, gvars, dvars, qvars, unreadCount, msgEvents, showInboxModal,
                         inboxLoad, sinceReset>>
    \/ AddProfile_GotUser
          /\ UNCHANGED <<tvars, wvars, gvars, dvars, qvars, unreadCount, msgEvents, showInboxModal,
                         inboxLoad, sinceReset>>
    \/ \E fails \in BOOLEAN :
          AddProfile_Insert(fails)
              /\ UNCHANGED <<tvars, wvars, gvars, dvars, qvars, unreadCount, msgEvents, showInboxModal,
                         inboxLoad, sinceReset>>
    \/ AddProfile_Resolved
          /\ UNCHANGED <<searching, debounceTimerRef, timers, searches, typed, searchSeq,
                         wvars, gvars, dvars, qvars, unreadCount, msgEvents,
                         showInboxModal, inboxLoad, sinceReset>>

SpecCard == InitCard /\ [][NextCard]_vars


\* the directory loaded, with change events on their way: other clients have
\* changed rows and changed them back
InitFeed == Loaded /\ profEvents \in 0..MaxEvents

\* the directory kept up to date: the change events of the profiles, the
\* loads they start, and the avatar the user changes meanwhile
NextFeed ==
    \/ ProfileChanged /\ UNCHANGED <<tvars, wvars, gvars, dvars, qvars, DirRest>>
    \/ \E fails \in BOOLEAN : loadProfiles_Fetched(fails) /\ UNCHANGED <<tvars, wvars, gvars, dvars, qvars, DirRest>>
    \/ loadProfiles_Resolved /\ UNCHANGED <<tvars, wvars, gvars, dvars, qvars, DirRest>>
    \/ \E i \in ProfileIds : SelectMember(i) /\ UNCHANGED <<tvars, wvars, gvars, dvars, qvars, DirRest>>
    \/ StartEdit /\ UNCHANGED <<tvars, wvars, gvars, dvars, qvars, DirRest>>
    \/ AvatarUpload_Begin /\ UNCHANGED <<tvars, wvars, gvars, dvars, qvars, DirRest>>
    \/ \E fails \in BOOLEAN : AvatarUpload_Uploaded(fails, "up.png") /\ UNCHANGED <<tvars, wvars, gvars, dvars, qvars, DirRest>>
    \/ \E fails \in BOOLEAN : handleAvatarUpdate_Update(fails) /\ UNCHANGED <<tvars, wvars, gvars, dvars, qvars, DirRest>>
    \/ handleAvatarUpdate_Resolved /\ UNCHANGED <<tvars, wvars, gvars, dvars, qvars, DirRest>>

SpecFeed == InitFeed /\ [][NextFeed]_vars

\* the number of operations in progress that write the directory
InProgress ==
    BagCardinality(dirLoads) + (IF saveCall = Idle THEN 0 ELSE 1)
                             + (IF avatarCall = Idle THEN 0 ELSE 1)

\* the directory written by operations that overlap, two at a time: the loads
\* change events start, the save of an edit and the avatar update. Of these
\* only the save's update may fail
NextOverlap ==
    \/ InProgress < 2 /\ ProfileChanged /\ UNCHANGED <<tvars, wvars, gvars, dvars, qvars, DirRest>>
    \/ loadProfiles_Fetched(FALSE) /\ UNCHANGED <<tvars, wvars, gvars, dvars, qvars, DirRest>>
    \/ loadProfiles_Resolved /\ UNCHANGED <<tvars, wvars, gvars, dvars, qvars, DirRest>>
    \/ \E i \in ProfileIds :
          SelectMember(i) /\ UNCHANGED <<tvars, wvars, gvars, dvars, qvars, DirRest>>
    \/ StartEdit /\ UNCHANGED <<tvars, wvars, gvars, dvars, qvars, DirRest>>
    \/ \E text \in StatusTexts :
          TypeStatus(text) /\ UNCHANGED <<tvars, wvars, gvars, dvars, qvars, DirRest>>
    \/ InProgress < 2 /\ handleSaveProfile_Begin
          /\ UNCHANGED <<tvars, wvars, gvars, dvars, qvars, DirRest>>
    \/ handleSaveProfile_GotUser /\ UNCHANGED <<tvars, wvars, gvars, dvars, qvars, DirRest>>
    \/ \E fails \in BOOLEAN :
          handleSaveProfile_Update(fails) /\ UNCHANGED <<tvars, wvars, gvars, dvars, qvars, DirRest>>
    \/ handleSaveProfile_Resolved /\ UNCHANGED <<tvars, wvars, gvars, dvars, qvars, DirRest>>
    \/ InProgress < 2 /\ AvatarUpload_Begin /\ UNCHANGED <<tvars, wvars, gvars, dvars, qvars, DirRest>>
    \/ AvatarUpload_Uploaded(FALSE, "up.png")
          /\ UNCHANGED <<tvars, wvars, gvars, dvars, qvars, DirRest>>
    \/ handleAvatarUpdate_Update(FALSE) /\ UNCHANGED <<tvars, wvars, gvars, dvars, qvars, DirRest>>
    \/ handleAvatarUpdate_Resolved /\ UNCHANGED <<tvars, wvars, gvars, dvars, qvars, DirRest>>

\* the directory holds the pin of the user who is signed in and no other
InitOverlap ==
    /\ InitFeed
    /\ Len(profiles) = 1
    /\ profiles[1].user_id = session

SpecOverlap == InitOverlap /\ [][NextOverlap]_vars

\* the unread counter of a session without the inbox: the load a sign-in
\* starts and the events of the message channel. atEvent records what the
\* collection held for the user when the callback last ran
NextCount ==
    \/ \E u \in Users :
          SignIn(u) /\ atEvent' = -1
              /\ UNCHANGED <<tvars, gvars, dvars, pvars, qvars, mvars>>
    \/ SignOut /\ atEvent' = -1
          /\ UNCHANGED <<tvars, gvars, dvars, pvars, qvars, lvars, evars>>
    \/ loadMyProfile_ProfileResolved
          /\ UNCHANGED <<tvars, wvars, gvars, dvars, pvars, qvars, lvars, evars>>
    \/ loadMyProfile_CountQueried
          /\ UNCHANGED <<tvars, wvars, gvars, dvars, pvars, qvars, mvars>>
    \/ loadMyProfile_CountResolved
          /\ UNCHANGED <<tvars, wvars, gvars, dvars, pvars, qvars, mvars>>
    \/ MessageInserted /\ atEvent' = CountUnread(messages, session)
          /\ UNCHANGED <<tvars, gvars, dvars, pvars, qvars, mvars>>
    \/ \E s \in Users, r \in Users, c \in Contents :
          OtherClientSends(s, r, c)
              /\ UNCHANGED <<tvars, wvars, gvars, dvars, pvars, qvars, mvars>>

SpecCount == Init /\ [][NextCount]_vars

\* the city search of the AddProfileModal: keystrokes, the debounce timeouts,
\* the searches they start and the selection of a candidate
NextSearch ==
    \/ \E value \in CityInputs :
          handleCityInputChange(value)
              /\ UNCHANGED <<wvars, gvars, bvars, dvars, cvars, pvars, qvars, mvars>>
    \/ Timeout_Expires
          /\ UNCHANGED <<wvars, gvars, bvars, dvars, cvars, pvars, qvars, mvars>>
    \/ \E reply \in GeocodeReplies :
          searchCity_Settled(reply)
              /\ UNCHANGED <<wvars, gvars, bvars, dvars, cvars, pvars, qvars, mvars>>
    \/ \E i \in 1..MaxCandidates :
          handleCitySelect(i)
              /\ UNCHANGED <<wvars, gvars, bvars, dvars, cvars, pvars, qvars, mvars>>

SpecSearch == Init /\ [][NextSearch]_vars

-----------------------------------------------------------------------------
(* Properties of the gateway (checked under SpecGeocode). *)
IsOkJson(reply) == /\ reply # None
                   /\ reply.kind = "response"
                   /\ reply.ok
                   /\ reply.body.kind = "json"

\* the primary answered with a success status and a list of candidates
PrimaryGaveList == /\ IsOkJson(gPrimary)
                   /\ gPrimary.body.value # Null
                   /\ gPrimary.body.value.t = "array"
PrimaryList == gPrimary.body.value.items
PrimaryGave(cs) == PrimaryGaveList /\ PrimaryList = cs

\* the secondary answered with a success status and a feature collection
SecondaryGaveFeatures == /\ IsOkJson(gSecondary)
                         /\ gSecondary.body.value # Null
                         /\ gSecondary.body.value.features # Undefined
SecondaryFeatures == gSecondary.body.value.features.items

\* the primary answered with a non-success status or with an empty list
PrimaryRefusedOrEmpty ==
    \/ PrimaryGave(<<>>)
    \/ \E b \in RefusalBodies : gPrimary = Response(FALSE, b)

\* the fetch of the primary threw, or reading its body threw
PrimaryTransportFailure ==
    \/ gPrimary = Throws
    \/ gPrimary = Response(TRUE, Unreadable)

PrimaryFailed ==
    \/ PrimaryRefusedOrEmpty
    \/ PrimaryTransportFailure
    \/ gPrimary \in {Response(TRUE, Json(Null)), Response(TRUE, Json(PlainObject))}

SecondaryFailed ==
    \/ gSecondary = Throws
    \/ \E b \in RefusalBodies : gSecondary = Response(FALSE, b)
    \/ gSecondary \in {Response(TRUE, Unreadable), Response(TRUE, Json(Null)),
                       Response(TRUE, Json(PlainObject))}

Queried(provider) == \E i \in 1..Len(gRequests) : gRequests[i] = provider

\* C1: when the primary provider answers with a success status and at least one
\* candidate, the response is 200 with exactly the primary's list, in the same
\* order, and the secondary provider is never queried.
C1_PrimaryVerbatim ==
    (PrimaryGaveList /\ Len(PrimaryList) >= 1) =>
        /\ gPc = "done"
        /\ gResponse = [status |-> 200, body |-> Arr(PrimaryList)]
        /\ gRequests = <<"primary">>
        /\ gSecondary = None

C1_Witness ==
    /\ gPc = "done"
    /\ PrimaryGaveList
    /\ Len(PrimaryList) = 2
    /\ PrimaryList[1] # PrimaryList[2]
    /\ gResponse.status = 200

\* C2: when the primary answers with a non-success status or an empty list and
\* the secondary answers successfully, the response is 200 with one candidate
\* per feature, in feature order, lat being the second and lon the first element
\* of the feature's geometry.coordinates.
C2_FallbackSwapsAxes ==
    (gPc = "done" /\ PrimaryRefusedOrEmpty /\ SecondaryGaveFeatures) =>
        LET fs == SecondaryFeatures
        IN  /\ gResponse.status = 200
            /\ gResponse.body.t = "array"
            /\ Len(gResponse.body.items) = Len(fs)
            /\ \A i \in 1..Len(fs) :
                  /\ gResponse.body.items[i].lat = fs[i].geometry.coordinates[2]
                  /\ gResponse.body.items[i].lon = fs[i].geometry.coordinates[1]

C2_Witness ==
    /\ gPc = "done"
    /\ PrimaryGave(<<>>)
    /\ SecondaryGaveFeatures
    /\ Len(SecondaryFeatures) = 2
    /\ SecondaryFeatures[1].geometry.coordinates # SecondaryFeatures[2].geometry.coordinates
    /\ gResponse.status = 200

\* C3: when the request to the primary provider fails at transport level (the
\* fetch throws, or reading its body throws), the secondary provider is still
\* queried, and when it succeeds its normalized candidates are returned with 200.
C3_TransportFailureFallsBack ==
    (gPc = "done" /\ PrimaryTransportFailure) =>
        /\ Queried("secondary")
        /\ SecondaryGaveFeatures => gResponse.status = 200

\* C4: when both providers fail, the response is 500 with an error body, and no
\* exception ever leaves the handler.
C4_BothFail500 ==
    /\ ~gEscaped
    /\ (gPc = "done" /\ PrimaryFailed /\ (gSecondary = None \/ SecondaryFailed)) =>
            /\ gResponse # None
            /\ gResponse.status = 500
            /\ gResponse.body = ErrorBody("Failed to fetch location data")

C4_Witness ==
    /\ gPc = "done"
    /\ PrimaryGave(<<>>)
    /\ gSecondary = Response(TRUE, Json(PlainObject))
    /\ gResponse.status = 500

\* C5: when q is missing or empty, the response is 400 and no request is sent
\* to either provider.
C5_MissingQuery400 ==
    gQuery \in {Null, Str("")} =>
        /\ gPc = "done"
        /\ gResponse.status = 400
        /\ gRequests = <<>>
        /\ gPrimary = None
        /\ gSecondary = None

C5_Witness ==
    /\ gPc = "done"
    /\ gQuery = Str("")
    /\ gResponse.status = 400

\* a property of a feature is present
Present(v) == v # Undefined /\ v # Str("")

\* the label the specification gives a named feature
ExpectedLabel(f) ==
    IF Present(f.properties.city)
    THEN f.properties.name.s \o ", " \o f.properties.city.s
    ELSE IF Present(f.properties.country)
         THEN f.properties.name.s \o ", " \o f.properties.country.s
         ELSE f.properties.name.s

\* C6: a feature's label is its name joined by ", " with its city when a city is
\* present, otherwise with its country when a country is present, and nothing is
\* appended to the name when neither is present.
C6_LabelJoin ==
    (gPc = "done" /\ PrimaryGave(<<>>) /\ SecondaryGaveFeatures) =>
        \A i \in 1..Len(SecondaryFeatures) :
            Present(SecondaryFeatures[i].properties.name) =>
                gResponse.body.items[i].display_name = ExpectedLabel(SecondaryFeatures[i])

\* C7: every 200 response has the primary provider's shape: a list of records
\* with display_name, lat and lon, lat and lon being numeric strings on the
\* primary path and on the fallback path alike.
C7_PrimaryShape ==
    (gPc = "done" /\ gResponse.status = 200) =>
        /\ gResponse.body.t = "array"
        /\ \A i \in 1..Len(gResponse.body.items) :
              /\ gResponse.body.items[i].lat.t = "string"
              /\ gResponse.body.items[i].lon.t = "string"

-----------------------------------------------------------------------------
(* Properties of the unread counter (checked under Spec). *)

\* C8: from the moment the inbox-open action resets the unread counter, the
\* counter equals the number of message-insert events observed since that reset,
\* whatever other asynchronous operations complete in between.
C8_CounterCountsEventsSinceReset ==
    sinceReset >= 0 => unreadCount = sinceReset

-----------------------------------------------------------------------------
(* Properties of the data-access layer (checked under SpecStore and SpecMark). *)

\* C9: sendMessage without a session returns an error and creates no row; with
\* a session it inserts exactly one row, whose sender is the session user, whose
\* receiver is the given id and whose read flag is false (the backend failing
\* the insert is the one other outcome: the error is returned, no row is created).
C9_SendMessage ==
    sendCall.pc = "returned" =>
        IF sendCall.user = NoUser
        THEN /\ sendCall.error = NotLoggedIn
             /\ sendCall.after = sendCall.before
        ELSE \/ /\ sendCall.error = StoreError
                /\ sendCall.after = sendCall.before
             \/ /\ sendCall.error = NoError
                /\ Len(sendCall.after) = Len(sendCall.before) + 1
                /\ SubSeq(sendCall.after, 1, Len(sendCall.before)) = sendCall.before
                /\ LET row == sendCall.after[Len(sendCall.after)]
                   IN  /\ row.sender_id = sendCall.user
                       /\ row.receiver_id = sendCall.receiverId
                       /\ row.is_read = FALSE

C9_Witness ==
    /\ sendCall.pc = "returned"
    /\ sendCall.user = "u1"
    /\ sendCall.receiverId = "u2"
    /\ sendCall.error = NoError
    /\ Len(sendCall.before) = 1
    /\ Len(sendCall.after) = 2

\* C10: markRead is idempotent: a call leaves every named message read and every
\* other message as it was, the same call applied again leaves the store as the
\* first left it, and the second call reports no error.
C10_MarkReadIdempotent ==
    lastMark # None =>
        /\ lastMark.error = NoError =>
              /\ Len(messages) = Len(lastMark.before)
              /\ \A i \in 1..Len(messages) :
                    IF lastMark.before[i].id \in lastMark.messageIds
                    THEN /\ messages[i].is_read
                         /\ [messages[i] EXCEPT !.is_read = lastMark.before[i].is_read]
                                = lastMark.before[i]
                    ELSE messages[i] = lastMark.before[i]
        /\ (lastMark.repeat /\ ~lastMark.failed) =>
              /\ lastMark.error = NoError
              /\ messages = lastMark.before

C10_Witness ==
    /\ lastMark # None
    /\ lastMark.repeat
    /\ lastMark.error = NoError
    /\ Len(messages) = 2
    /\ lastMark.messageIds = {1}
    /\ messages[1].is_read
    /\ ~messages[2].is_read

-----------------------------------------------------------------------------
(* Properties of the data-access layer over profiles (checked under SpecProfiles). *)
\* C11: updateProfile(id, fields) and deleteProfile(id) change or remove a row
\* only if its owner is the user of the session the call was made in, whatever
\* id is passed; without a session they return an error and leave the store as
\* it was.
C11_OwnerOnly ==
    (profCall.pc = "returned" /\ profCall.op \in {"updateProfile", "deleteProfile"}) =>
        LET Foreign(row) == row.user_id # profCall.user \/ row.id # profCall.id
        IN  /\ SelectSeq(profCall.after, Foreign) = SelectSeq(profCall.before, Foreign)
            /\ profCall.user = NoUser =>
                    /\ profCall.error = NotLoggedIn
                    /\ profCall.after = profCall.before

\* updateProfile has returned for the id of another user's profile
C11_Witness ==
    /\ profCall.pc = "returned"
    /\ profCall.op = "updateProfile"
    /\ profCall.user \in Users
    /\ profCall.error = NoError
    /\ \E i \in 1..Len(profCall.before) :
          /\ profCall.before[i].id = profCall.id
          /\ profCall.before[i].user_id # profCall.user
          /\ profCall.before[i].status_text # profCall.before[i].return_date
    /\ profCall.after = profCall.before

\* the rows of profiles owned by the user of the call that has returned
OwnProfiles == {i \in 1..Len(profiles) : profiles[i].user_id = profCall.user}

\* C12: getProfiles, getMyProfile and getUnreadCount never reject: on a store
\* error they resolve with the empty sequence, null and zero, getMyProfile
\* resolves with null when no row is found, and getUnreadCount never resolves
\* with a negative number.
C12_ReadsDegrade ==
    (profCall.pc = "returned"
        /\ profCall.op \in {"getProfiles", "getMyProfile", "getUnreadCount"}) =>
        /\ profCall.result.kind = "resolved"
        /\ profCall.failed =>
                profCall.result.value =
                    CASE profCall.op = "getProfiles" -> <<>>
                      [] profCall.op = "getMyProfile" -> Null
                      [] profCall.op = "getUnreadCount" -> 0
        /\ (profCall.op = "getMyProfile" /\ OwnProfiles = {}) =>
                profCall.result.value = Null
        /\ profCall.op = "getUnreadCount" => profCall.result.value \in Nat

\* getProfiles has met a store error on a collection that holds rows
C12_Witness ==
    /\ profCall.pc = "returned"
    /\ profCall.op = "getProfiles"
    /\ profCall.failed
    /\ Len(profiles) = MaxProfiles
    /\ profCall.result = Resolved(<<>>)

-----------------------------------------------------------------------------
(* Properties of the component's subscriptions (checked under Spec). *)
OnTable(table) ==
    LET Selects(c) == c.table = table IN Listening(channels, Selects)

\* C13: in every reachable state, across mount, sign-in, sign-out, a change of
\* user and unmount, at most one subscription on profiles and at most one on
\* messages are active, and an active subscription on messages is filtered on
\* the id of the user of the current session.
C13_OneSubscriptionEach ==
    /\ OnTable("profiles") <= 1
    /\ OnTable("messages") <= 1
    /\ \A c \in BagToSet(channels) : c.table = "messages" => c.filter = session

\* both subscriptions are active for a user and an event is on its way
C13_Witness ==
    /\ mounted
    /\ session \in Users
    /\ OnTable("profiles") = 1
    /\ OnTable("messages") = 1
    /\ msgEvents > 0

\* C14: on every change of session and on unmount, every subscription acquired
\* for the previous session key (the channel on profiles and, if it was created,
\* the channel on messages) is released in the cleanup step: after unmount no
\* subscription remains and none made for a former user outlives the change.
C14_ReleasedWithSession ==
    /\ ~mounted => channels = EmptyBag
    /\ \A c \in BagToSet(channels) : c.key = session

\* a user has signed out: the channel on profiles is the one of the new run
C14_Witness ==
    /\ mounted
    /\ session = NoUser
    /\ channels = SetToBag({ProfileChannel(NoUser)})
    /\ unreadCount > 0

-----------------------------------------------------------------------------
(* Properties of the read flag (checked under SpecMark) and of the unread
   counter (checked under Spec). *)
\* C16: the read flag of a message only changes from false to true, and only
\* through a markMessagesAsRead made in a session whose user is the receiver of
\* that message: no call sets the flag of a message addressed to another user.
C16_ReadFlagByReceiver ==
    lastMark # None =>
        \A i \in 1..Len(messages) :
            lastMark.before[i].is_read # messages[i].is_read =>
                /\ ~lastMark.before[i].is_read
                /\ messages[i].receiver_id = session

\* C17: the unread counter is scoped to the user of the current session: it is
\* zero without a session, and for a user it is derived from that user's count
\* and events only (zero when no message is addressed to that user), also when
\* a count load made for the previous session resolves late.
C17_CounterScoped ==
    /\ session = NoUser => unreadCount = 0
    /\ (session \in Users
            /\ \A i \in 1..Len(messages) : messages[i].receiver_id # session) =>
          unreadCount = 0

-----------------------------------------------------------------------------
(* Properties of the directory (checked under SpecFeed). *)
\* C15: while the subscription on profiles is active, every change event
\* delivered starts one loadProfiles call, and when a call resolves the
\* directory in memory is replaced as a whole by the pins of the fetched
\* profiles: nothing of the previous directory, locally patched pins included,
\* is kept.
C15_EventReloadsDirectory ==
    [][/\ profEvents' = profEvents - 1 =>
              BagCardinality(dirLoads') = BagCardinality(dirLoads) + 1
       /\ \A c \in BagToSet(dirLoads) :
              (c.pc = "setMembers" /\ dirLoads' = Ended(dirLoads, c)) =>
                  members' = MapSeq(c.result.value, profileToMember)]_vars

\* a load has resolved and the avatar patched into the directory is gone: the
\* card still shows it, the pin has the avatar of the row again
C15_Witness ==
    /\ dirLoads = EmptyBag
    /\ selectedMember # Null
    /\ selectedMember.avatar = "up.png"
    /\ \E i \in 1..Len(members) :
          /\ members[i].id = selectedMember.id
          /\ members[i].avatar = "seed.svg"

-----------------------------------------------------------------------------
(* Properties of the profile card (checked under SpecCard). *)
\* the pins of the directory with the id of a pin
PinsOf(pin) == {i \in 1..Len(members) : members[i].id = pin.id}

\* C18 as stated: when the user edits their own pin (status text, return
\* estimate or avatar), the pin in memory holds the edited values before the
\* server update call has resolved.
C18_EditShownBeforeResolved ==
    /\ saveCall.pc \in {"update", "returned"} =>
          \A i \in PinsOf(saveCall.selected) :
              /\ members[i].status = saveCall.status
              /\ members[i].countdown = saveCall.countdown
    /\ avatarCall.pc \in {"update", "returned"} =>
          \A i \in PinsOf(avatarCall.selected) : members[i].avatar = avatarCall.avatar

\* C18, amended: a new avatar is in the pin in memory and in the card when the
\* server update call is made, before it has resolved; an edit of the status
\* text and return estimate changes nothing in memory while updateProfile is
\* in progress, and is applied to the pin and the card when it has resolved
\* without an error.
C18_AvatarBeforeSaveAfter ==
    [][/\ (avatarCall.pc = "upload" /\ avatarCall'.pc = "update") =>
              /\ selectedMember'.avatar = avatarCall'.avatar
              /\ Len(members') = Len(avatarCall.members)
              /\ \A i \in 1..Len(members') :
                    members'[i].id = avatarCall.selected.id =>
                        members'[i].avatar = avatarCall'.avatar
       /\ (saveCall' # saveCall /\ saveCall' # Idle) =>
              /\ members' = members
              /\ selectedMember' = selectedMember
       /\ (saveCall.pc = "returned" /\ saveCall' = Idle /\ saveCall.error = NoError) =>
              /\ selectedMember' = Updated(saveCall)
              /\ \A i \in 1..Len(members) :
                    members'[i] = IF members[i].id = saveCall.selected.id
                                  THEN Updated(saveCall)
                                  ELSE members[i]]_vars

\* the update of the avatar is in progress: the pin has the new avatar, the row
\* has not, and the status saved before is in both
C18_Witness ==
    /\ avatarCall.pc = "update"
    /\ \E i \in PinsOf(avatarCall.selected) :
          /\ members[i].avatar = "up.png"
          /\ members[i].status = "busy"
    /\ \E i \in 1..Len(profiles) :
          /\ profiles[i].id = avatarCall.selected.id
          /\ profiles[i].avatar_url = "seed.svg"
          /\ profiles[i].status_text = "busy"

\* C19: the failure of a server update for an edit of the user's own pin
\* starts no compensating action: the directory in memory and the selected
\* member are what they were just before the failure was observed.
C19_NoRollback ==
    [][(\/ saveCall.pc = "returned" /\ saveCall.error # NoError /\ saveCall' = Idle
        \/ avatarCall.pc = "returned" /\ avatarCall.error # NoError
              /\ avatarCall' = Idle) =>
            /\ members' = members
            /\ selectedMember' = selectedMember]_vars

\* the update of the avatar has failed and the handler has ended: the pin and
\* the card keep the new avatar, the row has the old one
C19_Witness ==
    /\ avatarCall = Idle
    /\ ~isEditing
    /\ selectedMember # Null
    /\ selectedMember.avatar = "up.png"
    /\ \E i \in PinsOf(selectedMember) : members[i].avatar = "up.png"
    /\ \E i \in 1..Len(profiles) :
          /\ profiles[i].id = selectedMember.id
          /\ profiles[i].avatar_url = "seed.svg"

\* C20: every failure of a mutating operation started from the UI (create
\* profile, save profile edit, avatar update, delete profile), the failure
\* returned without a session included, shows the user an error: none is
\* dropped.
C20_FailureShown ==
    [][/\ (createCall.pc = "returned" /\ createCall' = Idle
              /\ createCall.error # NoError) => uiError' = createCall.error
       /\ (saveCall.pc = "returned" /\ saveCall' = Idle
              /\ saveCall.error # NoError) => uiError' = saveCall.error
       /\ (avatarCall.pc = "returned" /\ avatarCall' = Idle
              /\ avatarCall.error # NoError) => uiError' = avatarCall.error
       /\ (deleteCall.pc = "returned" /\ deleteCall' = Idle
              /\ deleteCall.error # NoError) => uiError' = deleteCall.error]_vars

-----------------------------------------------------------------------------
(* More properties of the gateway (checked under SpecGeocode). *)

\* the primary answered, with a success status and a body that holds no
\* candidate, or with a non-success status
PrimaryWithoutCandidates ==
    \/ PrimaryRefusedOrEmpty
    \/ gPrimary \in {Response(TRUE, Json(Null)), Response(TRUE, Json(PlainObject))}

\* C27: when the primary provider yields no candidates (or a non-success
\* status) and the secondary provider answers successfully with zero features,
\* the response is 200 with an empty candidate list, not 500.
C27_EmptyFallbackIs200 ==
    (gPc = "done" /\ PrimaryWithoutCandidates
        /\ SecondaryGaveFeatures /\ SecondaryFeatures = <<>>) =>
            /\ gResponse = [status |-> 200, body |-> Arr(<<>>)]
            /\ ~gEscaped

C27_Witness ==
    /\ gPc = "done"
    /\ gPrimary \in {Response(FALSE, b) : b \in RefusalBodies}
    /\ gSecondary = Response(TRUE, Json(FeatureCollection(<<>>)))
    /\ gResponse.status = 200

-----------------------------------------------------------------------------
(* More properties of the directory (checked under SpecFeed). *)

\* C26: when a directory fetch fails, getProfiles answers with the empty list
\* and no exception, and loadProfiles replaces the directory in memory with
\* it: the pins loaded before are gone and no error is shown.
C26_FailedFetchEmptiesDirectory ==
    [][\A c \in BagToSet(dirLoads) :
          (c.pc = "setMembers" /\ c.failed) =>
              /\ c.result = Resolved(<<>>)
              /\ dirLoads' = Ended(dirLoads, c) =>
                    /\ members' = <<>>
                    /\ uiError' = uiError]_vars

\* the collection holds rows, and after a failed fetch the directory holds
\* no pin and no error is shown
C26_Witness ==
    /\ profiles # <<>>
    /\ dirLoads = EmptyBag
    /\ members = <<>>
    /\ uiError = NoError

-----------------------------------------------------------------------------
(* More properties of the profile card (checked under SpecCard). *)

\* C29: when deleteProfile reports an error (a store error, or no session),
\* handleDeleteProfile leaves the directory in memory, the selected member and
\* myProfile as they were: the pin is removed locally only when the deletion
\* has succeeded.
C29_DeleteErrorKeepsPin ==
    [][(deleteCall.pc = "returned" /\ deleteCall' = Idle
            /\ deleteCall.error # NoError) =>
                UNCHANGED <<members, selectedMember, myProfile>>]_vars

\* the rows an update request issued in this step selects belong to the user
\* who is logged in
OwnedBySession(Selected(_)) ==
    \A i \in 1..Len(profiles) :
        Selected(profiles[i]) => (session # NoUser /\ profiles[i].user_id = session)

\* C30: every profile update request the client issues, the avatar update that
\* bypasses updateProfile included, targets a profile owned by the user who is
\* logged in at the moment the request is issued.
C30_UpdateTargetsOwnProfile ==
    [][/\ (avatarCall.pc = "upload" /\ avatarCall'.pc = "update") =>
              LET ById(row) == row.id = avatarCall'.selected.id
              IN  OwnedBySession(ById)
       /\ (saveCall.pc = "getUser" /\ saveCall'.pc = "update") =>
              LET Mine(row) == OwnRow(row, saveCall'.selected.id, saveCall'.user)
              IN  OwnedBySession(Mine)]_vars

-----------------------------------------------------------------------------
(* More properties of the component's subscriptions (checked under Spec). *)

\* the subscribed channels on the changes of profiles
ProfileChannels(subscribed) == {c \in BagToSet(subscribed) : c.table = "profiles"}

\* C25 as stated: while the component is mounted the channel on profiles is
\* subscribed whether or not a user is logged in, and a sign-in, sign-out or
\* change of user neither releases nor re-acquires it; the channel on messages
\* exists exactly when a user is logged in.
C25_ProfileChannelKept ==
    [][/\ mounted => OnTable("profiles") = 1
       /\ OnTable("messages") = (IF mounted /\ session # NoUser THEN 1 ELSE 0)
       /\ (mounted /\ mounted') =>
              ProfileChannels(channels') = ProfileChannels(channels)]_vars

\* C25, amended: while the component is mounted exactly one channel on
\* profiles is subscribed whether or not a user is logged in, and it is the one
\* the effect subscribed for the current session: a change of session releases
\* the channel and subscribes a new one. The channel on messages exists
\* exactly when the component is mounted and a user is logged in.
C25_ProfileChannelPerSession ==
    /\ OnTable("profiles") = (IF mounted THEN 1 ELSE 0)
    /\ mounted => ProfileChannels(channels) = {ProfileChannel(session)}
    /\ OnTable("messages") = (IF mounted /\ session # NoUser THEN 1 ELSE 0)

\* a user has signed in: the channel on profiles of the first run is gone
C25_Witness ==
    /\ mounted
    /\ session \in Users
    /\ ProfileChannel(NoUser) \notin BagToSet(channels)
    /\ ProfileChannel(session) \in BagToSet(channels)

-----------------------------------------------------------------------------
(* More properties of the unread counter (checked under SpecCount). *)

\* C28: a message-insert event observed while the unread-count load of the
\* session is still in progress is not lost: when the load resolves, the
\* counter is at least the number of unread messages addressed to the user
\* that existed when the last observed event was delivered.
C28_EventNotLostToLoad ==
    [][\A c \in BagToSet(loadCalls) :
          (c.pc = "setUnreadCount" /\ loadCalls' = Ended(loadCalls, c)
                /\ atEvent >= 0) =>
              unreadCount' >= atEvent]_vars

-----------------------------------------------------------------------------
(* Properties of the city search (checked under SpecSearch). *)

\* C21: every keystroke in the city input cancels the pending timeout, if any,
\* before it sets a new one, so at most one timeout is pending in every state;
\* and a geocode search is started only for the value of a keystroke whose
\* timeout expired with no further keystroke after it.
C21_DebounceSingleTimer ==
    [][/\ Cardinality(timers) <= 1
       /\ Cardinality(timers') <= 1
       /\ typed' # typed =>
              timers' = {[handle |-> Timeout(Len(typed')),
                          value |-> typed'[Len(typed')]]}
       /\ \A s \in searches' \ searches :
              /\ s.key = Len(typed)
              /\ s.query = typed[s.key]]_vars

\* a first keystroke's timeout was cleared by the second keystroke, whose
\* timeout has expired and started the only search
C21_Witness ==
    /\ Len(typed) = 2
    /\ typed[1] # typed[2]
    /\ timers = {}
    /\ searchSeq = 1
    /\ \E s \in searches : s.key = 2 /\ s.query = typed[2]

\* C22: as a result of typing in the city input, at most one geocode request
\* is in flight at any time.
C22_OneRequestInFlight ==
    Cardinality(searches) <= 1

\* C23: the candidate list never regresses to an older query: the answer of a
\* search started before the one whose results the list holds does not
\* overwrite them, and after a candidate was selected (which clears the list)
\* the answer of a search still pending does not repopulate it.
C23_NoStaleResults ==
    [][\A s \in searches :
          (searches' = searches \ {s} /\ s.seq <= listSeq) =>
              cityResults' = cityResults]_vars

-----------------------------------------------------------------------------
(* Properties of overlapping writes of the directory (checked under
   SpecOverlap). *)

\* a load resolves in this step and the directory is the fetched one
LoadResolvedWins ==
    \A c \in BagToSet(dirLoads) :
        (c.pc = "setMembers" /\ dirLoads' = Ended(dirLoads, c)) =>
            members' = MapSeq(c.result.value, profileToMember)

\* a save resolves without an error in this step and its pin holds the edit
SaveResolvedWins ==
    (saveCall.pc = "returned" /\ saveCall' = Idle /\ saveCall.error = NoError) =>
        \A i \in 1..Len(members') :
            members'[i].id = saveCall.selected.id =>
                /\ members'[i].status = saveCall.status
                /\ members'[i].countdown = saveCall.countdown

\* C24 as stated: of any two overlapping operations that write the directory
\* in memory (profile updates, directory refetches), the directory reflects
\* the one that resolved last, whatever the order of issue; so whenever such an
\* operation resolves, the directory holds what it wrote.
C24_LastResolvedWins ==
    [][/\ LoadResolvedWins
       /\ SaveResolvedWins
       /\ (avatarCall.pc = "returned" /\ avatarCall' = Idle
                /\ avatarCall.error = NoError) =>
              \A i \in 1..Len(members') :
                  members'[i].id = avatarCall.selected.id =>
                      members'[i].avatar = avatarCall.avatar]_vars

\* C24, amended: loadProfiles and handleSaveProfile write the directory when
\* they resolve, so of two overlapping such operations the directory reflects
\* the one that resolved last, whatever the order of issue. The avatar update
\* writes the directory when it is issued and not when it resolves.
C24_ResolveTimeWritersWin ==
    [][/\ LoadResolvedWins
       /\ SaveResolvedWins
       /\ (avatarCall.pc = "returned" /\ avatarCall' = Idle) =>
              members' = members]_vars

\* a load that fetched before the save's update reached the backend has
\* resolved after the save: the directory holds the fetched status again, the
\* card and the collection hold the edited one
C24_Witness ==
    /\ dirLoads = EmptyBag
    /\ saveCall = Idle
    /\ selectedMember # Null
    /\ selectedMember.status = "busy"
    /\ \E i \in 1..Len(profiles) :
          /\ profiles[i].id = selectedMember.id
          /\ profiles[i].status_text = "busy"
    /\ \E i \in 1..Len(members) :
          /\ members[i].id = selectedMember.id
          /\ members[i].status = ""

====
